---- MODULE Spec2Model ----
(***************************************************************************)
(* A model of the EIA scraping pipeline (scrape.py) and of the heat-rate   *)
(* assignment of the database interface (database_interface.py).           *)
(*                                                                         *)
(* Tables (pandas DataFrames) are sequences of rows; a row is a record     *)
(* [idx |-> its index label, v |-> a function from column names to         *)
(* cells].  A cell is missing (NaN), a number or a character string; a     *)
(* string is the tuple of its ASCII codes, so that Python's ordering of    *)
(* strings (used by 'max' and by the sort of group keys) can be computed.  *)
(***************************************************************************)
EXTENDS Integers, Sequences, FiniteSets, TLC

VARIABLES
    pc,                   \* the statement that runs next
    \* parse_eia860_data
    existing_generators, proposed_generators, generators, gb, agg_i,
    \* calculate_avg_heat_rate
    thermal_gens_df, prime_mover, energy_source, vintage, window,
    similar_generators, avg_heat_rate,
    \* parse_most_recent_eia860M_data
    retired_generators, wecc_retired_generators_in_project_list,
    wecc_retired_gb, wecc_retired_agg,
    \* parse_eia923_data
    generation, heat_rate_outputs, negative_heat_rate_outputs,
    \* assign_heat_rates_to_projects
    thermal_gens, thermal_gens_w_hr, thermal_gens_wo_hr, n_outliers, min_hr, max_hr,
    \* filter_plants_by_region_id
    area, counties_file, region_counties, geo_queries, generation_projects,
    region_generators, n_calls,
    \* upload_generation_projects
    upload_generators, retired_gens, generators_and_retired, generators_no_retired,
    \* parse_eia923_data: the hydro profiles
    hydro_generation, hydro_gen_projects, hydro_outputs, hydro_outputs_narrow,
    month,
    \* parse_eia923_data: the multi-fuel extract
    fuel_based_generation, fuel_based_gen_projects,
    multi_fuel_heat_rate_outputs,
    \* the pickle cache of parse_eia860_data and parse_eia923_data
    pickle_files, raw_files, REWRITE_PICKLES, loaded, accessed, written_by,
    cache_steps,
    \* finish_project_processing
    existing_gens, proposed_gens, uprates, new_gens, n_proposed_done,
    \* assign_heat_rates_to_projects: the loop over thermal_gens_wo_hr.index
    assigned,
    \* upload_generation_projects: the prompt and the statements sent to the database
    carry_on, answers, db_statements

vars860 == <<existing_generators, proposed_generators, generators, gb, agg_i>>

varsHR == <<thermal_gens_df, prime_mover, energy_source, vintage, window,
            similar_generators, avg_heat_rate>>

vars860M == <<retired_generators, wecc_retired_generators_in_project_list,
              wecc_retired_gb, wecc_retired_agg>>

varsWide == <<heat_rate_outputs, negative_heat_rate_outputs>>

\* The variables of the functions that are modelled further below.
varsAssign == <<thermal_gens, thermal_gens_w_hr, thermal_gens_wo_hr, n_outliers,
                min_hr, max_hr>>

\* The variables of filter_plants_by_region_id: its parameter area, the file
\* other_data/<region>_counties.tab, the file
\* processed_data/generation_projects_<year>.tab and its local tables.
varsRegion == <<area, counties_file, region_counties, geo_queries,
                generation_projects, region_generators, n_calls>>

\* The variables of upload_generation_projects: its tables generators and
\* retired_gens, the joined table and the table without the retired units.
varsUpload == <<upload_generators, retired_gens, generators_and_retired,
                generators_no_retired>>

\* The variables of the hydro profiles of parse_eia923_data.
varsHydro == <<hydro_generation, hydro_gen_projects, hydro_outputs,
               hydro_outputs_narrow, month>>

\* The variables of the multi-fuel extract of parse_eia923_data.
varsMulti == <<fuel_based_generation, fuel_based_gen_projects,
               multi_fuel_heat_rate_outputs>>

\* The variables of the pickle cache: the files of pickle_data, the raw forms, the flag, what the last call read, wrote and loaded, and the tables of the call that wrote each pickle.
varsCache == <<pickle_files, raw_files, REWRITE_PICKLES, loaded, accessed,
               written_by, cache_steps>>

\* The variables of finish_project_processing: its tables and the position of its loop in proposed_gens.
varsFinish == <<existing_gens, proposed_gens, uprates, new_gens,
                n_proposed_done>>

\* The labels of thermal_gens_wo_hr that the loop of lines 473-479 has gone through.
varsImpute == <<assigned>>

\* The variables of the prompt of upload_generation_projects: the answer, the answers given so far and the statements that changed the database.
varsGate == <<carry_on, answers, db_statements>>

varsThird == <<varsHydro, varsMulti, varsCache, varsFinish, varsImpute,
               varsGate>>

varsRest == <<varsRegion, varsUpload, varsThird>>

varsLater == <<varsWide, varsAssign, varsRest>>

\* The variables of parse_eia860_data, calculate_avg_heat_rate,
\* parse_most_recent_eia860M_data and of the first part of parse_eia923_data.
varsEarly == <<vars860, varsHR, vars860M, generation>>

vars == <<pc, varsEarly, varsLater>>

\* The variables of the functions of the first parts.
varsSecond == <<varsEarly, varsWide, varsAssign, varsRegion, varsUpload>>

\* The variables that the actions of a part leave alone.
othersHydro == <<varsSecond, varsMulti, varsCache, varsFinish, varsImpute,
                 varsGate>>

othersMulti == <<varsSecond, varsHydro, varsCache, varsFinish, varsImpute,
                 varsGate>>

othersCache == <<varsSecond, varsHydro, varsMulti, varsFinish, varsImpute,
                 varsGate>>

othersFinish == <<varsSecond, varsHydro, varsMulti, varsCache, varsImpute,
                  varsGate>>

othersImpute == <<varsSecond, varsHydro, varsMulti, varsCache, varsFinish,
                  varsGate>>

othersGate == <<varsSecond, varsHydro, varsMulti, varsCache, varsFinish,
                varsImpute>>

(***************************************************************************)
(* Cells and their ordering                                                *)
(***************************************************************************)
NaN == [t |-> "nan", n |-> 0, s |-> <<>>]

Num(x) == [t |-> "num", n |-> x, s |-> <<>>]

Str(cs) == [t |-> "str", n |-> 0, s |-> cs]

isnull(c) == c.t = "nan"

\* Comparison of two Python 2 byte strings.
RECURSIVE StrLT(_, _)
StrLT(a, b) ==
    IF b = <<>> THEN FALSE
    ELSE IF a = <<>> THEN TRUE
    ELSE IF Head(a) # Head(b) THEN Head(a) < Head(b)
    ELSE StrLT(Tail(a), Tail(b))

\* Python 2 ordering of two non-missing cells: numbers by value, strings
\* byte-wise, any number before any string.
CellLT(a, b) ==
    IF a.t = "num" /\ b.t = "num" THEN a.n < b.n
    ELSE IF a.t = "str" /\ b.t = "str" THEN StrLT(a.s, b.s)
    ELSE a.t = "num" /\ b.t = "str"

\* str(i) for an integer i >= 0: its decimal digits.
RECURSIVE str(_)
str(i) == IF i < 10 THEN <<48 + i>> ELSE str(i \div 10) \o <<48 + (i % 10)>>

(***************************************************************************)
(* String constants of the program (ASCII codes)                           *)
(***************************************************************************)
CA == <<67, 65>>

CT == <<67, 84>>

CS == <<67, 83>>

CC == <<67, 67>>

ST == <<83, 84>>

NG == <<78, 71>>

U1 == <<85, 49>>

OP == <<79, 80>>

Operable == <<79, 112, 101, 114, 97, 98, 108, 101>>

Proposed == <<80, 114, 111, 112, 111, 115, 101, 100>>

NoneStr == <<78, 111, 110, 101>>

Blank == <<32>>

Dot == <<46>>

\* 'OP','SB','CO','SC','OA','OZ','TS','L','T','U','V'
accepted_status_codes ==
    { <<79, 80>>, <<83, 66>>, <<67, 79>>, <<83, 67>>, <<79, 65>>, <<79, 90>>,
      <<84, 83>>, <<76>>, <<84>>, <<85>>, <<86>> }

\* The columns of gen_relevant_data that the model carries.
gen_relevant_data ==
    << "Plant Code", "Status", "Nameplate Capacity (MW)", "Prime Mover",
       "Energy Source", "Operating Year", "Unit Code", "Operational Status" >>

gen_data_to_be_summed == {"Nameplate Capacity (MW)"}

\* Mutant: the second aggregation is left out.
gen_aggregation_lists_units_only == << <<"Plant Code", "Unit Code">> >>

gen_aggregation_lists ==
    << <<"Plant Code", "Unit Code">>,
       <<"Plant Code", "Prime Mover", "Energy Source", "Operating Year">> >>

PlaceholderBase == 10000000

Range(f) == {f[x] : x \in DOMAIN f}

(***************************************************************************)
(* Bounds and input sets of parse_eia860_data                              *)
(***************************************************************************)
MaxGenerators == 3

UnitCodes == {NaN, Str(U1)}

OperatingYears == {NaN, Num(2000)}

RawCapacities == {Num(10), Str(Blank)}

RawRow(plant, unit, pm, es, oy, cap, status, opstatus) ==
    [c \in Range(gen_relevant_data) |->
        CASE c = "Plant Code" -> plant
          [] c = "Unit Code" -> unit
          [] c = "Prime Mover" -> pm
          [] c = "Energy Source" -> es
          [] c = "Operating Year" -> oy
          [] c = "Nameplate Capacity (MW)" -> cap
          [] c = "Status" -> status
          [] c = "Operational Status" -> opstatus]

\* Rows of the sheet of existing generators: operating units of one plant.
ExistingRows ==
    { RawRow(Num(1), unit, pm, Str(NG), oy, cap, Str(OP), Str(Operable)) :
        unit \in UnitCodes, pm \in {Str(CT), Str(ST)},
        oy \in OperatingYears, cap \in RawCapacities }

\* Rows of the sheet of proposed generators: units under construction (U)
\* and units that are only planned (P), at the same plant.
ProposedRows ==
    { RawRow(Num(1), unit, Str(CT), Str(NG), Num(2000), Num(10), status, Str(Proposed)) :
        unit \in UnitCodes, status \in {Str(<<85>>), Str(<<80>>)} }

\* A table read from a sheet: n rows labelled 0..n-1 (a RangeIndex).
RawTables(n, rows) ==
    { [p \in 1..n |-> [idx |-> p - 1, v |-> f[p]]] : f \in [1..n -> rows] }

(***************************************************************************)
(* parse_eia860_data                                                       *)
(***************************************************************************)
\* pd.merge(existing_generators, plants, ...): every plant is listed in the
\* plant file, so every row is kept; the result is labelled 0..n-1 anew.
merge(t) == [p \in 1..Len(t) |-> [idx |-> p - 1, v |-> t[p].v]]

\* DataFrame.append: the rows of both tables, each keeping its own label.
append(t, u) == t \o u

RECURSIVE Select(_, _)
Select(t, keep) ==
    IF t = <<>> THEN <<>>
    ELSE IF Head(t) \in keep THEN <<Head(t)>> \o Select(Tail(t), keep)
    ELSE Select(Tail(t), keep)

FilterStatus(t) ==
    Select(t, {r \in Range(t) : r.v["Status"].t = "str"
                                /\ r.v["Status"].s \in accepted_status_codes})

\* Series.replace(' ', nan) and Series.replace('.', nan) on the summed columns.
ReplaceChars(c) == IF c = Str(Blank) \/ c = Str(Dot) THEN NaN ELSE c

\* Mutant: the single-shaft units (CS) keep their code.
RemapPrimeMover_withoutCS(c) == IF c \in {Str(CA), Str(CT)} THEN Str(CC) ELSE c

\* .loc[isin(['CA','CT','CS']), 'Prime Mover'] = 'CC'
RemapPrimeMover(c) == IF c \in {Str(CA), Str(CT), Str(CS)} THEN Str(CC) ELSE c

CleanRow(r) ==
    [r EXCEPT !.v = [c \in DOMAIN r.v |->
        IF c \in gen_data_to_be_summed THEN ReplaceChars(r.v[c])
        ELSE IF c = "Prime Mover" THEN RemapPrimeMover(r.v[c])
        ELSE r.v[c]]]

Clean(t) == [p \in 1..Len(t) |-> CleanRow(t[p])]

\* generators[col].dtype == np.float64: a column without any string.
IsFloat64(t, col) == \A p \in 1..Len(t) : t[p].v[col].t # "str"

\* The value that the fillna dictionary holds for index label i.
Placeholder(isfloat, i) ==
    IF isfloat THEN Num(PlaceholderBase + i) ELSE Str(NoneStr \o str(i))

\* Series.fillna(dict) aligns the dictionary with the index labels.
FillColumn(t, col) ==
    LET isfloat == IsFloat64(t, col)
    IN  [p \in 1..Len(t) |->
            IF isnull(t[p].v[col])
            THEN [t[p] EXCEPT !.v[col] = Placeholder(isfloat, t[p].idx)]
            ELSE t[p]]

RECURSIVE FillColumns(_, _)
FillColumns(t, cols) ==
    IF cols = <<>> THEN t ELSE FillColumns(FillColumn(t, Head(cols)), Tail(cols))

KeyOf(r, agg_list) == [k \in 1..Len(agg_list) |-> r.v[agg_list[k]]]

HasNullKey(r, agg_list) == \E k \in 1..Len(agg_list) : isnull(r.v[agg_list[k]])

\* Lexicographic order of two key tuples of the same length.
KeyLT(a, b) ==
    \E k \in 1..Len(a) :
        /\ \A j \in 1..(k - 1) : a[j] = b[j]
        /\ CellLT(a[k], b[k])

\* groupby sorts the group keys.
RECURSIVE SortKeys(_)
SortKeys(S) ==
    IF S = {} THEN <<>>
    ELSE LET m == CHOOSE k \in S : \A o \in S \ {k} : KeyLT(k, o)
         IN  <<m>> \o SortKeys(S \ {m})

\* groupby leaves out the rows that have a missing key value.
GroupKeys(t, agg_list) ==
    { KeyOf(r, agg_list) : r \in {x \in Range(t) : ~HasNullKey(x, agg_list)} }

GroupRows(t, agg_list, key) ==
    Select(t, {r \in Range(t) : KeyOf(r, agg_list) = key})

RECURSIVE SumCells(_, _)
SumCells(rows, col) ==
    IF rows = <<>> THEN 0
    ELSE (IF Head(rows).v[col].t = "num" THEN Head(rows).v[col].n ELSE 0)
         + SumCells(Tail(rows), col)

\* Mutant: 'min' in place of 'max'.
AggMax_min(rows, col) ==
    LET vals == {rows[p].v[col] : p \in 1..Len(rows)} \ {NaN}
    IN  IF vals = {} THEN NaN
        ELSE CHOOSE m \in vals : \A o \in vals : o = m \/ CellLT(m, o)

\* 'max' over a group skips the missing values.
AggMax(rows, col) ==
    LET vals == {rows[p].v[col] : p \in 1..Len(rows)} \ {NaN}
    IN  IF vals = {} THEN NaN
        ELSE CHOOSE m \in vals : \A o \in vals : o = m \/ CellLT(o, m)

\* Mutant: the summed column gets 'max' like every other column.
AggSum_max(rows, col) == AggMax(rows, col)

\* Mutant: the summed column gets the count of its values.
AggSum_count(rows, col) ==
    Num(Cardinality({p \in 1..Len(rows) : rows[p].v[col].t = "num"}))

\* sum over a group skips the missing values.
AggSum(rows, col) == Num(SumCells(rows, col))

\* The row that agg makes of one group: sum for the summed columns, 'max'
\* for the others.
AggRow(rows, columns, summed) ==
    [c \in columns |-> IF c \in summed THEN AggSum(rows, c) ELSE AggMax(rows, c)]

\* groupby(agg_list).agg({...}): one row per group, labelled with its key.
GroupByAgg(t, agg_list, columns, summed) ==
    LET keys == SortKeys(GroupKeys(t, agg_list))
    IN  [i \in 1..Len(keys) |->
            [idx |-> keys[i],
             v |-> AggRow(GroupRows(t, agg_list, keys[i]), columns, summed)]]

\* reset_index(drop=True)
reset_index(t) == [p \in 1..Len(t) |-> [idx |-> p - 1, v |-> t[p].v]]

\* gb.agg({...}).loc[:, gen_relevant_data] and reset_index(drop=True)
Aggregate(t, agg_list) ==
    reset_index(GroupByAgg(t, agg_list, Range(gen_relevant_data), gen_data_to_be_summed))

\* No call of calculate_avg_heat_rate is in progress.
NoAverage == [sum |-> 0, n |-> 0]

IdleHR ==
    /\ thermal_gens_df = <<>>
    /\ prime_mover = ""
    /\ energy_source = ""
    /\ vintage = 0
    /\ window = 0
    /\ similar_generators = <<>>
    /\ avg_heat_rate = NoAverage

\* The DataFrameGroupBy object: the grouped frame and the grouping keys.
NoGroupBy == [obj |-> <<>>, keys |-> <<>>]

\* parse_most_recent_eia860M_data and parse_eia923_data are not running.
Idle860M ==
    /\ retired_generators = <<>>
    /\ wecc_retired_generators_in_project_list = <<>>
    /\ wecc_retired_gb = NoGroupBy
    /\ wecc_retired_agg = <<>>

Idle923 == generation = <<>>

\* The heat-rate profiles of parse_eia923_data are not being computed.
IdleWide ==
    /\ heat_rate_outputs = <<>>
    /\ negative_heat_rate_outputs = <<>>

\* assign_heat_rates_to_projects is not running.
IdleAssign ==
    /\ thermal_gens = <<>>
    /\ thermal_gens_w_hr = <<>>
    /\ thermal_gens_wo_hr = <<>>
    /\ n_outliers = 0
    /\ min_hr = 0
    /\ max_hr = 0

\* The file of counties of a region that has not been written yet.
Absent == <<"absent">>

\* filter_plants_by_region_id is not running.
IdleRegion ==
    /\ area = 0
    /\ counties_file = Absent
    /\ region_counties = <<>>
    /\ geo_queries = 0
    /\ generation_projects = <<>>
    /\ region_generators = <<>>
    /\ n_calls = 0

\* upload_generation_projects is not running.
IdleUpload ==
    /\ upload_generators = <<>>
    /\ retired_gens = <<>>
    /\ generators_and_retired = <<>>
    /\ generators_no_retired = <<>>

\* The hydro profiles of parse_eia923_data are not being computed.
IdleHydro ==
    /\ hydro_generation = <<>>
    /\ hydro_gen_projects = <<>>
    /\ hydro_outputs = <<>>
    /\ hydro_outputs_narrow = <<>>
    /\ month = 0

\* The multi-fuel extract of parse_eia923_data is not being computed.
IdleMulti ==
    /\ fuel_based_generation = <<>>
    /\ fuel_based_gen_projects = <<>>
    /\ multi_fuel_heat_rate_outputs = <<>>

\* No form is being loaded.
IdleCache ==
    /\ pickle_files = <<>>
    /\ raw_files = <<>>
    /\ REWRITE_PICKLES = FALSE
    /\ loaded = <<>>
    /\ accessed = {}
    /\ written_by = <<>>
    /\ cache_steps = 0

\* finish_project_processing is not running.
IdleFinish ==
    /\ existing_gens = <<>>
    /\ proposed_gens = <<>>
    /\ uprates = <<>>
    /\ new_gens = <<>>
    /\ n_proposed_done = 0

\* The loop over thermal_gens_wo_hr.index has not started.
IdleImpute ==
    /\ assigned = {}

\* upload_generation_projects has not reached its prompt.
IdleGate ==
    /\ carry_on = ""
    /\ answers = <<>>
    /\ db_statements = <<>>

IdleThird == IdleHydro /\ IdleMulti /\ IdleCache /\ IdleFinish /\ IdleImpute /\ IdleGate

IdleRest == IdleRegion /\ IdleUpload /\ IdleThird

IdleLater == IdleWide /\ IdleAssign /\ IdleRest

IdleEarly ==
    /\ existing_generators = <<>>
    /\ proposed_generators = <<>>
    /\ generators = <<>>
    /\ gb = NoGroupBy
    /\ agg_i = 0
    /\ IdleHR
    /\ Idle860M
    /\ Idle923

IdleSecond == IdleEarly /\ IdleWide /\ IdleAssign /\ IdleRegion /\ IdleUpload

IdleOthersHydro == IdleSecond /\ IdleMulti /\ IdleCache /\ IdleFinish /\ IdleImpute /\ IdleGate

IdleOthersMulti == IdleSecond /\ IdleHydro /\ IdleCache /\ IdleFinish /\ IdleImpute /\ IdleGate

IdleOthersCache == IdleSecond /\ IdleHydro /\ IdleMulti /\ IdleFinish /\ IdleImpute /\ IdleGate

IdleOthersFinish == IdleSecond /\ IdleHydro /\ IdleMulti /\ IdleCache /\ IdleImpute /\ IdleGate

IdleOthersImpute == IdleSecond /\ IdleHydro /\ IdleMulti /\ IdleCache /\ IdleFinish /\ IdleGate

IdleOthersGate == IdleSecond /\ IdleHydro /\ IdleMulti /\ IdleCache /\ IdleFinish /\ IdleImpute

\* The loop over gen_aggregation_lists, as a function of the table.
RECURSIVE AggregateAll(_, _)
AggregateAll(t, lists) ==
    IF lists = <<>> THEN t
    ELSE AggregateAll(Aggregate(FillColumns(t, Head(lists)), Head(lists)), Tail(lists))

Init860 ==
    /\ pc = "read"
    /\ \E ne \in 0..MaxGenerators : \E np \in 0..(MaxGenerators - ne) :
         /\ existing_generators \in RawTables(ne, ExistingRows)
         /\ proposed_generators \in RawTables(np, ProposedRows)
    /\ generators = <<>>
    /\ gb = NoGroupBy
    /\ agg_i = 0
    /\ IdleHR
    /\ IdleLater
    /\ Idle860M
    /\ Idle923

\* Lines 371-392: merge with the plants, append the proposed units, filter by
\* status, clean the summed columns and rename the combined-cycle parts.
ReadGenerators ==
    /\ pc = "read"
    /\ generators' =
         Clean(FilterStatus(append(merge(existing_generators), proposed_generators)))
    /\ agg_i' = 1
    /\ pc' = "fill"
    /\ UNCHANGED <<existing_generators, proposed_generators, gb, varsHR, vars860M, generation, varsLater>>

FillPlaceholders ==
    /\ pc = "fill"
    /\ generators' = FillColumns(generators, gen_aggregation_lists[agg_i])
    /\ pc' = "group"
    /\ UNCHANGED <<existing_generators, proposed_generators, gb, agg_i, varsHR, vars860M, generation, varsLater>>

GroupAggregate ==
    /\ pc = "group"
    /\ gb' = [obj |-> generators, keys |-> gen_aggregation_lists[agg_i]]
    /\ generators' = Aggregate(generators, gen_aggregation_lists[agg_i])
    /\ IF agg_i < Len(gen_aggregation_lists)
       THEN agg_i' = agg_i + 1 /\ pc' = "fill"
       ELSE agg_i' = agg_i /\ pc' = "save"
    /\ UNCHANGED <<existing_generators, proposed_generators, varsHR, vars860M, generation, varsLater>>

\* drop(['Unit Code','Generator Id']), rename 'Plant Code' to 'EIA Plant Code'
SaveColumns(r) ==
    [r EXCEPT !.v = [c \in ((DOMAIN r.v) \ {"Unit Code", "Plant Code"}) \cup {"EIA Plant Code"} |->
        IF c = "EIA Plant Code" THEN r.v["Plant Code"] ELSE r.v[c]]]

Save ==
    /\ pc = "save"
    /\ generators' = [p \in 1..Len(generators) |-> SaveColumns(generators[p])]
    /\ pc' = "done"
    /\ UNCHANGED <<existing_generators, proposed_generators, gb, agg_i, varsHR, vars860M, generation, varsLater>>

Next860 ==
    \/ ReadGenerators
    \/ FillPlaceholders
    \/ GroupAggregate
    \/ Save

Spec860 == Init860 /\ [][Next860]_vars

(***************************************************************************)
(* Properties of the aggregation in parse_eia860_data                      *)
(***************************************************************************)
CapacityColumn == "Nameplate Capacity (MW)"

\* The capacity that a row contributes: nothing when it is missing.
CapacityOf(r) == IF r.v[CapacityColumn].t = "num" THEN r.v[CapacityColumn].n ELSE 0

RECURSIVE SumOver(_, _)
SumOver(t, P) ==
    IF P = {} THEN 0
    ELSE LET p == CHOOSE x \in P : TRUE
         IN  CapacityOf(t[p]) + SumOver(t, P \ {p})

TotalCapacity(t) == SumOver(t, 1..Len(t))

\* An aggregation has just been done: gb holds the grouped frame and
\* generators its result.
AfterAggregation == pc \in {"fill", "save"} /\ gb.keys # <<>>

\* C1: each step of the aggregation loop (the filling of the placeholders and
\* the grouping) leaves the total nameplate capacity of the table unchanged,
\* a missing capacity counting as nothing.
C1_CapacityConserved ==
    [][(pc \in {"fill", "group"}) =>
          TotalCapacity(generators') = TotalCapacity(generators)]_vars

\* C1 witness: a grouping has merged rows, one of them without a capacity,
\* into fewer rows that carry the summed capacity of two units.
C1_Witness ==
    /\ AfterAggregation
    /\ Len(generators) < Len(gb.obj)
    /\ \E p \in 1..Len(gb.obj) : isnull(gb.obj[p].v[CapacityColumn])
    /\ \E i \in 1..Len(generators) : generators[i].v[CapacityColumn] = Num(20)

\* C2 (as claimed): when the placeholders are filled in, a row that lacks a
\* value in a key column gets a value that no other row of the table has in
\* that column, be it another placeholder or a real value.
C2_PlaceholdersUnique ==
    [][(pc = "fill") =>
          \A c \in Range(gen_aggregation_lists[agg_i]) :
            \A p \in 1..Len(generators) :
              isnull(generators[p].v[c]) =>
                \A q \in (1..Len(generators)) \ {p} :
                    generators'[q].v[c] # generators'[p].v[c]]_vars

SameKey(a, b, keys) == \A c \in Range(keys) : a.v[c] = b.v[c]

IsMaxOf(m, vals) ==
    LET present == vals \ {NaN}
    IN  IF present = {} THEN m = NaN
        ELSE m \in present /\ \A o \in present : ~CellLT(m, o)

\* C3: after each aggregation every row of the grouped frame belongs to
\* exactly one output row, the one with its key values; every output row
\* stands for a non-empty group, carries the sum of the group's capacities
\* and, in every other column, the maximum of the group.
C3_GroupedSumAndMax ==
    AfterAggregation =>
        LET t == gb.obj
            Group(i) == {p \in 1..Len(t) : SameKey(t[p], generators[i], gb.keys)}
        IN  /\ \A p \in 1..Len(t) :
                  Cardinality({i \in 1..Len(generators) :
                                  SameKey(t[p], generators[i], gb.keys)}) = 1
            /\ \A i \in 1..Len(generators) :
                  /\ Group(i) # {}
                  /\ generators[i].v[CapacityColumn] = Num(SumOver(t, Group(i)))
                  /\ \A c \in (DOMAIN generators[i].v) \ {CapacityColumn} :
                        IsMaxOf(generators[i].v[c], {t[p].v[c] : p \in Group(i)})

\* C3 witness: the second aggregation has merged two rows that differ in a
\* column that is not a key.
C3_Witness ==
    /\ pc = "save"
    /\ \E p, q \in 1..Len(gb.obj) :
          /\ p # q
          /\ SameKey(gb.obj[p], gb.obj[q], gb.keys)
          /\ gb.obj[p].v["Unit Code"] # gb.obj[q].v["Unit Code"]

\* C4: aggregating the aggregated table again, by the same key lists in the
\* same order, gives the same rows with the same values.
C4_Idempotent ==
    pc = "save" => AggregateAll(generators, gen_aggregation_lists) = generators

\* C4 witness: the aggregation has merged rows and left several rows.
C4_Witness ==
    /\ pc = "save"
    /\ Len(generators) >= 2
    /\ \E i \in 1..Len(generators) : generators[i].v[CapacityColumn] = Num(20)

VintageKey == <<"Plant Code", "Prime Mover", "Energy Source", "Operating Year">>

\* C5: after the last aggregation no two rows have the same plant, prime
\* mover, energy source and operating year.
C5_UniqueVintageKey ==
    pc = "save" =>
        \A i, j \in 1..Len(generators) :
            i # j => ~SameKey(generators[i], generators[j], VintageKey)

\* C5 witness: the last aggregation has merged rows of two unit codes and
\* has left more than one row.
C5_Witness ==
    /\ pc = "save"
    /\ Len(generators) >= 2
    /\ Len(generators) < Len(gb.obj)

(***************************************************************************)
(* parse_most_recent_eia860M_data and parse_eia923_data: the combined-      *)
(* cycle codes in the three tables that are aggregated                     *)
(***************************************************************************)
G1 == <<71, 49>>

G2 == <<71, 50>>

NY == <<78, 89>>

wecc_states ==
    { <<87, 65>>, <<79, 82>>, <<67, 65>>, <<65, 90>>, <<78, 86>>, <<78, 77>>,
      <<85, 84>>, <<73, 68>>, <<77, 84>>, <<87, 89>>, <<67, 79>>, <<84, 88>> }

\* The prime movers of the raw sheets: the three parts of a combined cycle
\* and a steam turbine.
RawPrimeMovers == {Str(CA), Str(CT), Str(CS), Str(ST)}

\* Generator G1 is in California, generator G2 in New York.
StateOf(g) == IF g = G1 THEN Str(CA) ELSE Str(NY)

\* Rows of the sheet of existing generators, all parts of plant 1.
CombinedCycleRows ==
    { RawRow(Num(1), unit, pm, Str(NG), oy, Num(10), Str(OP), Str(Operable)) :
        unit \in UnitCodes, pm \in RawPrimeMovers, oy \in OperatingYears }

\* The columns of the annual sheets that parse_most_recent_eia860M_data uses.
AnnualRow(g, pm, status, opstatus) ==
    "Utility Id" :> Num(7) @@ "Plant Code" :> Num(1) @@ "Generator Id" :> Str(g)
    @@ "State" :> StateOf(g) @@ "Prime Mover" :> pm @@ "Energy Source" :> Str(NG)
    @@ "Operating Year" :> Num(2000) @@ "Nameplate Capacity (MW)" :> Num(10)
    @@ "Unit Code" :> NaN @@ "Status" :> status @@ "Operational Status" :> opstatus

AnnualExistingRows ==
    { AnnualRow(g, pm, Str(OP), Str(Operable)) : g \in {G1, G2}, pm \in RawPrimeMovers }

AnnualProposedRows ==
    { AnnualRow(G2, Str(CT), status, Str(Proposed)) : status \in {Str(<<85>>), Str(<<80>>)} }

\* The columns of the sheet of retired generators of the monthly form.
RetiredRow(g, pm) ==
    "Entity Id" :> Num(7) @@ "Plant Code" :> Num(1) @@ "Generator Id" :> Str(g)
    @@ "State" :> StateOf(g) @@ "Prime Mover" :> pm
    @@ "Nameplate Capacity (MW)" :> Num(10) @@ "Retirement Year" :> Num(2019)
    @@ "Operating Year" :> Num(2000)

RetiredRows == { RetiredRow(g, pm) : g \in {G1, G2}, pm \in {Str(CA), Str(CT), Str(ST)} }

\* The columns of 'Page 1 Generation and Fuel Data' of the EIA923 form; plant
\* 99999 is the fictional "State-Fuel Level Increment" plant.
GenerationRow(plant, pm, es) ==
    "Plant Code" :> plant @@ "Prime Mover" :> pm @@ "Energy Source" :> es
    @@ "Netgen Jan" :> Num(5)

GenerationRows ==
    { GenerationRow(plant, pm, es) :
        plant \in {Num(1), Num(99999)}, pm \in RawPrimeMovers, es \in {Str(NG), NaN} }

numeric_columns == {"Netgen Jan"}

\* .loc[isin(['CA','CT','CS']), 'Prime Mover'] = 'CC' on a whole table
RemapTable(t) ==
    [p \in 1..Len(t) |-> [t[p] EXCEPT !.v["Prime Mover"] = RemapPrimeMover(@)]]

\* df[[columns]]
Project(t, columns) ==
    [p \in 1..Len(t) |-> [idx |-> t[p].idx, v |-> [c \in columns |-> t[p].v[c]]]]

\* df.rename(columns={old: new})
Rename(t, old, new) ==
    [p \in 1..Len(t) |->
        [idx |-> t[p].idx,
         v |-> [c \in ((DOMAIN t[p].v) \ {old}) \cup {new} |->
                  IF c = new THEN t[p].v[old] ELSE t[p].v[c]]]]

\* df.drop(columns, axis=1)
Drop(t, columns) ==
    [p \in 1..Len(t) |->
        [idx |-> t[p].idx, v |-> [c \in (DOMAIN t[p].v) \ columns |-> t[p].v[c]]]]

left_on ==
    <<"Utility Id", "Plant Code", "Generator Id", "State", "Prime Mover",
      "Operating Year", "Nameplate Capacity (MW)">>

right_on ==
    <<"Entity Id", "Plant Code", "Generator Id", "State", "Prime Mover",
      "Operating Year", "Nameplate Capacity (MW)">>

Matches(l, r) == \A k \in 1..Len(left_on) : l.v[left_on[k]] = r.v[right_on[k]]

\* The rows of an inner join, in the order of the left table.
RECURSIVE JoinRows(_, _)
JoinRows(left, right) ==
    IF left = <<>> THEN <<>>
    ELSE LET m == Select(right, {r \in Range(right) : Matches(Head(left), r)})
         IN  [p \in 1..Len(m) |-> [idx |-> 0, v |-> Head(left).v @@ m[p].v]]
             \o JoinRows(Tail(left), right)

\* pd.merge(left, right, left_on=..., right_on=..., how='inner')
InnerMerge(left, right) == reset_index(JoinRows(left, right))

generators_columns ==
    {"Energy Source", "Generator Id", "Nameplate Capacity (MW)", "Operating Year",
     "Operational Status", "Plant Code", "Prime Mover", "State", "Unit Code",
     "Utility Id"}

gen_relevant_data2 ==
    {"Plant Code", "Nameplate Capacity (MW)", "Operating Year", "Prime Mover",
     "Energy Source", "State", "Retirement Year", "Generator Id", "Unit Code"}

agg_list == <<"Plant Code", "Prime Mover", "Energy Source", "Operating Year">>

generation_keys == <<"Plant Code", "Prime Mover", "Energy Source">>

\* parse_eia860_data on sheets that list the parts of combined cycles.
Init860CC ==
    /\ pc = "read"
    /\ \E ne \in 0..MaxGenerators : \E np \in 0..(MaxGenerators - ne) :
         /\ existing_generators \in RawTables(ne, CombinedCycleRows)
         /\ proposed_generators \in RawTables(np, ProposedRows)
    /\ generators = <<>>
    /\ gb = NoGroupBy
    /\ agg_i = 0
    /\ IdleHR
    /\ IdleLater
    /\ Idle860M
    /\ Idle923

Init860M ==
    /\ pc = "m_read"
    /\ \E ne \in 0..MaxGenerators : \E np \in 0..(MaxGenerators - ne) :
       \E nr \in 0..(MaxGenerators - ne - np) :
         /\ existing_generators \in RawTables(ne, AnnualExistingRows)
         /\ proposed_generators \in RawTables(np, AnnualProposedRows)
         /\ retired_generators \in RawTables(nr, RetiredRows)
    /\ generators = <<>>
    /\ gb = NoGroupBy
    /\ agg_i = 0
    /\ wecc_retired_generators_in_project_list = <<>>
    /\ wecc_retired_gb = NoGroupBy
    /\ wecc_retired_agg = <<>>
    /\ IdleHR
    /\ IdleLater
    /\ Idle923

Init923 ==
    /\ pc = "g_read"
    /\ \E n \in 0..MaxGenerators : generation \in RawTables(n, GenerationRows)
    /\ existing_generators = <<>>
    /\ proposed_generators = <<>>
    /\ generators = <<>>
    /\ gb = NoGroupBy
    /\ agg_i = 0
    /\ IdleHR
    /\ IdleLater
    /\ Idle860M

\* Lines 501-539: the annual sheets are merged, appended and filtered, and
\* the combined-cycle parts are renamed in both tables.
ReadAnnualAndRetired ==
    /\ pc = "m_read"
    /\ generators' =
         RemapTable(FilterStatus(append(merge(existing_generators), proposed_generators)))
    /\ retired_generators' = RemapTable(retired_generators)
    /\ pc' = "m_merge"
    /\ UNCHANGED <<existing_generators, proposed_generators, gb, agg_i,
                   wecc_retired_generators_in_project_list, wecc_retired_gb,
                   wecc_retired_agg, generation, varsHR, varsLater>>

\* Lines 544-579: the inner join, the filter on the WECC states and the
\* renaming of 'Operational Status' to 'Status'.
MergeRetired ==
    /\ pc = "m_merge"
    /\ LET retired_generators_in_project_list ==
               InnerMerge(Project(generators, generators_columns), retired_generators)
           wecc_filter ==
               { r \in Range(retired_generators_in_project_list) :
                   r.v["State"].t = "str" /\ r.v["State"].s \in wecc_states }
       IN  wecc_retired_generators_in_project_list' =
               Rename(Select(retired_generators_in_project_list, wecc_filter),
                      "Operational Status", "Status")
    /\ pc' = "m_fill"
    /\ UNCHANGED <<vars860, retired_generators, wecc_retired_gb, wecc_retired_agg,
                   generation, varsHR, varsLater>>

\* Lines 584-590: the placeholders of the retired units.
FillRetired ==
    /\ pc = "m_fill"
    /\ wecc_retired_generators_in_project_list' =
         FillColumns(wecc_retired_generators_in_project_list, agg_list)
    /\ pc' = "m_group"
    /\ UNCHANGED <<vars860, retired_generators, wecc_retired_gb, wecc_retired_agg,
                   generation, varsHR, varsLater>>

\* Lines 591-597: groupby, agg and reset_index.
AggregateRetired ==
    /\ pc = "m_group"
    /\ wecc_retired_gb' =
         [obj |-> wecc_retired_generators_in_project_list, keys |-> agg_list]
    /\ wecc_retired_agg' =
         reset_index(GroupByAgg(wecc_retired_generators_in_project_list, agg_list,
                                gen_relevant_data2, gen_data_to_be_summed))
    /\ pc' = "m_save"
    /\ UNCHANGED <<vars860, retired_generators,
                   wecc_retired_generators_in_project_list, generation, varsHR, varsLater>>

\* Lines 602-604: the columns of the file of aggregated retired plants.
SaveRetired ==
    /\ pc = "m_save"
    /\ wecc_retired_agg' =
         Rename(Drop(wecc_retired_agg, {"Unit Code", "Generator Id", "Energy Source"}),
                "Plant Code", "EIA Plant Code")
    /\ pc' = "done"
    /\ UNCHANGED <<vars860, retired_generators,
                   wecc_retired_generators_in_project_list, wecc_retired_gb,
                   generation, varsHR, varsLater>>

Next860M ==
    \/ ReadAnnualAndRetired
    \/ MergeRetired
    \/ FillRetired
    \/ AggregateRetired
    \/ SaveRetired

CleanGenerationRow(r) ==
    [r EXCEPT !.v = [c \in DOMAIN r.v |->
        IF c \in numeric_columns THEN ReplaceChars(r.v[c]) ELSE r.v[c]]]

\* Lines 712-726: the fictional plants are removed, the numeric columns are
\* cleaned and the combined-cycle parts are renamed.
ReadGeneration ==
    /\ pc = "g_read"
    /\ LET kept == Select(generation,
                          {r \in Range(generation) : r.v["Plant Code"] # Num(99999)})
       IN  generation' =
               RemapTable([p \in 1..Len(kept) |-> CleanGenerationRow(kept[p])])
    /\ pc' = "g_group"
    /\ UNCHANGED <<vars860, vars860M, varsHR, varsLater>>

\* Lines 727-729: groupby and agg over all the columns; the rows of the
\* result are labelled with the group keys.
AggregateGeneration ==
    /\ pc = "g_group"
    /\ gb' = [obj |-> generation, keys |-> generation_keys]
    /\ generation' =
         GroupByAgg(generation, generation_keys,
                    {"Plant Code", "Prime Mover", "Energy Source", "Netgen Jan"},
                    numeric_columns)
    /\ pc' = "done"
    /\ UNCHANGED <<existing_generators, proposed_generators, generators, agg_i,
                   vars860M, varsHR, varsLater>>

Next923 ==
    \/ ReadGeneration
    \/ AggregateGeneration

InitCC == Init860CC \/ Init860M \/ Init923

NextCC == Next860 \/ Next860M \/ Next923

\* The three functions that aggregate a table, each run on its own.
SpecCC == InitCC /\ [][NextCC]_vars

CombinedCycleParts == {Str(CA), Str(CT), Str(CS)}

NoCombinedCyclePart(t) ==
    \A p \in 1..Len(t) : t[p].v["Prime Mover"] \notin CombinedCycleParts

\* Every two rows of the grouped table that are combined cycles and have the
\* same key are in one and the same row of the aggregated table.
OneRowPerCombinedCycle(grouped, keys, aggregated) ==
    \A a, b \in Range(grouped) :
        ( /\ \E k \in 1..Len(keys) : keys[k] = "Prime Mover"
          /\ a.v["Prime Mover"] = Str(CC)
          /\ SameKey(a, b, keys)
          /\ ~HasNullKey(a, keys) )
        => Cardinality({p \in 1..Len(aggregated) :
                           KeyOf(aggregated[p], keys) = KeyOf(a, keys)}) = 1

\* C6: in the annual table, in the table of retired generators and in the
\* monthly generation table, no row carries CA, CT or CS at any moment from
\* the placeholders and the groupby on (a table is aggregated only after its
\* codes were rewritten), neither among the rows that enter an aggregation
\* nor among the rows that leave it; and the combined-cycle rows that enter an
\* aggregation by prime mover with the same values in the key columns leave
\* it as one row.
C6_CombinedCycleBeforeAggregation ==
    /\ [](pc \in {"fill", "group", "save", "done"} => NoCombinedCyclePart(generators))
    /\ [](pc \in {"m_merge", "m_fill", "m_group", "m_save"} =>
            /\ NoCombinedCyclePart(generators)
            /\ NoCombinedCyclePart(retired_generators)
            /\ NoCombinedCyclePart(wecc_retired_generators_in_project_list)
            /\ NoCombinedCyclePart(wecc_retired_agg))
    /\ [](pc = "g_group" \/ (pc = "done" /\ gb.keys = generation_keys) =>
            NoCombinedCyclePart(generation))
    /\ [](NoCombinedCyclePart(gb.obj) /\ NoCombinedCyclePart(wecc_retired_gb.obj))
    /\ [][(pc = "group") => OneRowPerCombinedCycle(gb'.obj, gb'.keys, generators')]_vars
    /\ [][(pc = "m_group") =>
            OneRowPerCombinedCycle(wecc_retired_gb'.obj, wecc_retired_gb'.keys,
                                   wecc_retired_agg')]_vars
    /\ [][(pc = "g_group") => OneRowPerCombinedCycle(gb'.obj, gb'.keys, generation')]_vars

\* C6 witness: the sheet of existing generators lists a steam part (CA) and a
\* combustion turbine (CT) of plant 1 and nothing else, and the aggregated
\* table is the single combined cycle with the capacity of both.
C6_Witness ==
    /\ pc = "save"
    /\ Len(existing_generators) = 2
    /\ proposed_generators = <<>>
    /\ {existing_generators[p].v["Prime Mover"] : p \in 1..2} = {Str(CA), Str(CT)}
    /\ Len(generators) = 1
    /\ generators[1].v["Prime Mover"] = Str(CC)
    /\ generators[1].v["Nameplate Capacity (MW)"] = Num(20)

(***************************************************************************)
(* calculate_avg_heat_rate (database_interface.py)                         *)
(*                                                                         *)
(* A row of thermal_gens_w_hr is a record of its 'Prime Mover', 'Energy    *)
(* Source', 'Operating Year' and 'Best Heat Rate'.  Heat rates are in      *)
(* thousandths of MMBTU/MWh; a mean is kept as the exact fraction sum / n, *)
(* and n = 0 is the missing value that the mean of no rows gives.          *)
(***************************************************************************)
MaxThermalGens == 4

DefaultWindow == 2

WindowStep == 2

MinSimilar == 4

MaxWindow == 103

PrimeMovers == {"CC", "ST"}

Fuels == {"Gas", "Coal"}

\* Operating years of the measured units (the years span 1925 to 2018).
ThermalOperatingYears == {1925, 2014}

\* The unit that lacks a heat rate: a combined cycle burning gas, built in
\* 2016 or 2018, or without a known year (parse_eia860_data has put the
\* placeholder of its row in 'Operating Year').
TargetPrimeMovers == {"CC"}

TargetFuels == {"Gas"}

Vintages == {2016, 2018, PlaceholderBase + 3}

\* The technology, fuel and year of a measured unit; the units of 1925 are
\* combined cycles.
ThermalKinds ==
    { k \in PrimeMovers \X Fuels \X ThermalOperatingYears : k[3] = 1925 => k[1] = "CC" }

RECURSIVE Pow2(_)
Pow2(i) == IF i = 0 THEN 1 ELSE 2 * Pow2(i - 1)

\* thermal_gens_w_hr is sorted by 'Best Heat Rate': the i-th row has the i-th
\* smallest heat rate.
HeatRateAt(i) == 9000 + 100 * Pow2(i)

ThermalTables(n) ==
    { [i \in 1..n |-> [PrimeMover |-> f[i][1], EnergySource |-> f[i][2],
                       OperatingYear |-> f[i][3], BestHeatRate |-> HeatRateAt(i)]] :
        f \in [1..n -> ThermalKinds] }

\* The rows of the same technology and fuel within the window.
SimilarGenerators(df, pm, es, v, w) ==
    SelectSeq(df, LAMBDA r :
        /\ r.PrimeMover = pm
        /\ r.EnergySource = es
        /\ r.OperatingYear >= v - w
        /\ r.OperatingYear <= v + w)

\* Mutant: the fallback keeps to the fuel of the unit.
TechnologyGenerators_sameFuel(df, pm) ==
    SelectSeq(df, LAMBDA r : r.PrimeMover = pm /\ r.EnergySource = energy_source)

\* The rows of the same technology.
TechnologyGenerators(df, pm) ==
    SelectSeq(df, LAMBDA r : r.PrimeMover = pm)

\* The sum of the column, computed by halves.
RECURSIVE SumHeatRate(_)
SumHeatRate(df) ==
    IF df = <<>> THEN 0
    ELSE IF Len(df) = 1 THEN df[1].BestHeatRate
    ELSE LET half == Len(df) \div 2
         IN  SumHeatRate(SubSeq(df, 1, half)) + SumHeatRate(SubSeq(df, half + 1, Len(df)))

\* df['Best Heat Rate'].mean()
mean(df) == [sum |-> SumHeatRate(df), n |-> Len(df)]

\* Mutant: the window is doubled.
NextWindow_doubled(w) == w * 2

\* window += 2
NextWindow(w) == w + WindowStep

\* Mutant: the peers are averaged only when there are at least 4 of them.
HasSimilar_atLeastMin(similar) == Len(similar) >= MinSimilar

\* len(similar_generators) > 0
HasSimilar(similar) == Len(similar) > 0

InitHR ==
    /\ pc = "hr_call"
    /\ \E n \in 0..MaxThermalGens : thermal_gens_df \in ThermalTables(n)
    /\ prime_mover \in TargetPrimeMovers
    /\ energy_source \in TargetFuels
    /\ vintage \in Vintages
    /\ window = DefaultWindow
    /\ similar_generators = <<>>
    /\ avg_heat_rate = NoAverage
    /\ existing_generators = <<>>
    /\ proposed_generators = <<>>
    /\ generators = <<>>
    /\ gb = NoGroupBy
    /\ agg_i = 0
    /\ Idle860M
    /\ Idle923
    /\ IdleLater

\* The search before the loop, with the window of the call.
FirstSearch ==
    /\ pc = "hr_call"
    /\ similar_generators' =
         SimilarGenerators(thermal_gens_df, prime_mover, energy_source, vintage, window)
    /\ pc' = "hr_while"
    /\ UNCHANGED <<thermal_gens_df, prime_mover, energy_source, vintage, window,
                   avg_heat_rate, vars860, vars860M, generation, varsLater>>

\* One pass of the while loop: a wider window, a new search, and the break.
EnlargeWindow ==
    /\ pc = "hr_while"
    /\ Len(similar_generators) < MinSimilar
    /\ window' = NextWindow(window)
    /\ similar_generators' =
         SimilarGenerators(thermal_gens_df, prime_mover, energy_source, vintage, window')
    /\ pc' = IF window' >= MaxWindow THEN "hr_return" ELSE "hr_while"
    /\ UNCHANGED <<thermal_gens_df, prime_mover, energy_source, vintage,
                   avg_heat_rate, vars860, vars860M, generation, varsLater>>

\* The loop ends (by its condition or by the break) and the average is returned.
ReturnAverage ==
    /\ \/ pc = "hr_while" /\ Len(similar_generators) >= MinSimilar
       \/ pc = "hr_return"
    /\ avg_heat_rate' =
         IF HasSimilar(similar_generators) THEN mean(similar_generators)
         ELSE mean(TechnologyGenerators(thermal_gens_df, prime_mover))
    /\ pc' = "hr_done"
    /\ UNCHANGED <<thermal_gens_df, prime_mover, energy_source, vintage, window,
                   similar_generators, vars860, vars860M, generation, varsLater>>

NextHR ==
    \/ FirstSearch
    \/ EnlargeWindow
    \/ ReturnAverage

SpecHR == InitHR /\ [][NextHR]_vars

(***************************************************************************)
(* Properties of calculate_avg_heat_rate                                   *)
(***************************************************************************)
\* The rows of thermal_gens_df of the technology and fuel of the unit whose
\* operating year is at most w years from its vintage.
Peers(w) ==
    {i \in 1..Len(thermal_gens_df) :
        /\ thermal_gens_df[i].PrimeMover = prime_mover
        /\ thermal_gens_df[i].EnergySource = energy_source
        /\ vintage - w <= thermal_gens_df[i].OperatingYear
        /\ thermal_gens_df[i].OperatingYear <= vintage + w}

SameTechnology == {i \in 1..Len(thermal_gens_df) : thermal_gens_df[i].PrimeMover = prime_mover}

RECURSIVE HeatRateSum(_)
HeatRateSum(S) ==
    IF S = {} THEN 0
    ELSE LET i == CHOOSE x \in S : TRUE
         IN  thermal_gens_df[i].BestHeatRate + HeatRateSum(S \ {i})

\* avg is the unweighted mean of the heat rates of the rows S (missing when
\* S is empty).
IsMeanOf(avg, S) == avg.n = Cardinality(S) /\ avg.sum = HeatRateSum(S)

\* The most steps that the call can still take: the return, and before it
\* one pass of the loop for every window up to the first of 103 or more.
StepsLeft ==
    CASE pc = "hr_call" -> 53
      [] pc = "hr_while" -> IF window < 103 THEN (104 - window) \div 2 + 1 ELSE 1
      [] pc = "hr_return" -> 1
      [] OTHER -> 0

\* C7: the call ends: it is never stuck before its return, and every step
\* brings it closer to the return (a number of steps left that is never
\* negative decreases); the window never gets narrower; and when no unit of
\* the same technology and fuel is in the widest window searched, the result
\* is the mean over the units of the technology, which is not missing when
\* there is such a unit.
C7_TerminatesWithFallback ==
    /\ [](pc = "hr_done" \/ ENABLED NextHR)
    /\ [](StepsLeft >= 0)
    /\ [][StepsLeft' < StepsLeft]_vars
    /\ [][window' >= window]_vars
    /\ [](pc = "hr_done" /\ Peers(window) = {} =>
            /\ IsMeanOf(avg_heat_rate, SameTechnology)
            /\ (SameTechnology # {} => avg_heat_rate.n > 0))

\* C7 witness: the search went to the widest window without finding a unit
\* of the same fuel, and the units of the technology gave the average.
C7_Witness ==
    /\ pc = "hr_done"
    /\ window >= MaxWindow
    /\ Peers(window) = {}
    /\ Cardinality(SameTechnology) >= 2
    /\ avg_heat_rate.n = Cardinality(SameTechnology)

\* C8 (as claimed): the window starts at 2 and is doubled each time fewer
\* than 4 peers are found.
C8_WindowDoubles ==
    /\ [](pc = "hr_call" => window = 2)
    /\ [][(pc = "hr_while" /\ Len(similar_generators) < 4) =>
             window' = 2 * window]_vars

\* C8 (amended): the first search uses a window of 2, and each time fewer
\* than 4 peers are found the next search uses a window 2 years wider
\* (2, 4, 6, 8, ...).
C8_WindowGrowsByTwo ==
    /\ [](pc = "hr_call" => window = 2)
    /\ [][(pc = "hr_call") =>
             window' = 2 /\ Len(similar_generators') = Cardinality(Peers(2))]_vars
    /\ [][(pc = "hr_while" /\ Len(similar_generators) < 4) =>
             /\ window' = window + 2
             /\ Len(similar_generators') = Cardinality(Peers(window + 2))]_vars

\* C8 witness: the third search, with a window of 6.
C8_Witness ==
    /\ pc = "hr_while"
    /\ window = 6
    /\ Len(similar_generators) = Cardinality(Peers(6))

\* C9 (as claimed): no search uses a window wider than 103 years, and the
\* peers that are averaged are at most 103 years from the vintage.
C9_WindowAtMost103 ==
    /\ window <= 103
    /\ pc = "hr_done" =>
          \A i \in 1..Len(similar_generators) :
              /\ similar_generators[i].OperatingYear - vintage <= 103
              /\ vintage - similar_generators[i].OperatingYear <= 103

\* The windows that the call has searched, up to the current one.
Searched == {w \in 2..window : w % 2 = 0}

\* C10: the search stops at the first window with at least 4 peers, or at
\* the widest window; the result is the mean over exactly the peers in that
\* window, and it is the mean over the units of the technology if and only
\* if that window holds no peer.
C10_MeanOfFinalWindow ==
    pc = "hr_done" =>
        /\ window \in Searched
        /\ \A w \in Searched \ {window} :
              Cardinality(Peers(w)) < 4 /\ w < MaxWindow
        /\ Cardinality(Peers(window)) >= 4 \/ window >= MaxWindow
        /\ IF Peers(window) # {}
           THEN IsMeanOf(avg_heat_rate, Peers(window))
           ELSE IsMeanOf(avg_heat_rate, SameTechnology)

\* C10 witness: the search stopped at the second window with 4 peers, whose
\* mean is the result.
C10_Witness ==
    /\ pc = "hr_done"
    /\ window = 4
    /\ Cardinality(Peers(2)) < 4
    /\ avg_heat_rate.n = 4

(***************************************************************************)
(* parse_eia923_data: the heat-rate profiles in wide format                *)
(*                                                                         *)
(* A record of heat_rate_outputs is [idx |-> its index label, hr |-> the   *)
(* twelve 'Heat Rate Month m' columns (the renamed fuel-consumption        *)
(* columns), netgen |-> the twelve 'Net Electricity Generation (MWh) Month *)
(* m' columns, best |-> 'Best Heat Rate'].  A float is missing (nan),      *)
(* infinite (inf, with a sign) or the fraction p/q with q > 0.             *)
(***************************************************************************)
MaxRecords == 3

NumMonths == 12

Months == 1..NumMonths

nan == [t |-> "nan", p |-> 0, q |-> 1]

inf(sign) == [t |-> "inf", p |-> sign, q |-> 1]

Float(p, q) == [t |-> "fin", p |-> p, q |-> q]

\* Series.div: the quotient of two floats, the second one a whole number.
div(x, d) ==
    IF x.t = "nan" THEN nan
    ELSE IF x.t = "inf" THEN (IF d = 0 THEN x ELSE IF d > 0 THEN x ELSE inf(-x.p))
    ELSE IF d = 0 THEN (IF x.p = 0 THEN nan ELSE IF x.p > 0 THEN inf(1) ELSE inf(-1))
    ELSE IF d > 0 THEN Float(x.p, x.q * d)
    ELSE Float(-x.p, x.q * (-d))

\* x > 0 and x <= 0 on floats: both are false for a missing value.
GreaterThanZero(x) == (x.t = "fin" /\ x.p > 0) \/ (x.t = "inf" /\ x.p > 0)

AtMostZero(x) == (x.t = "fin" /\ x.p <= 0) \/ (x.t = "inf" /\ x.p < 0)

FloatLE(x, y) == x.p * y.q <= y.p * x.q

\* The fuel consumption and the net generation of one month: a month of
\* operation, a month without generation, a month without fuel use, a
\* month in which the plant consumed more electricity than it generated,
\* and a month without any report.
FirstMonth == {<<20, 2>>, <<20, 0>>, <<0, 2>>}

SecondMonth == {<<30, 2>>, <<40, 2>>, <<20, -2>>}

OtherMonths == {<<20, -2>>, <<0, 0>>}

YearOfData(first, second, rest) ==
    [m \in Months |-> IF m = 1 THEN first ELSE IF m = 2 THEN second ELSE rest]

\* The table after the merges of lines 940-960, labelled 0..n-1.
HeatRateTables(n) ==
    { [i \in 1..n |->
         [idx |-> i - 1,
          hr |-> [m \in Months |-> Float(f[i][m][1], 1)],
          netgen |-> [m \in Months |-> f[i][m][2]],
          best |-> nan]] :
        f \in [1..n -> { YearOfData(a, b, c) :
                           a \in FirstMonth, b \in SecondMonth, c \in OtherMonths }] }

\* Lines 980-983: fuel consumption over net generation, month by month.
MonthlyHeatRates(r) == [r EXCEPT !.hr = [m \in Months |-> div(r.hr[m], r.netgen[m])]]

\* Mutant: any() in place of all().
negative_filter_any(r) == \E m \in Months : AtMostZero(r.hr[m])

\* (heat_rate_outputs <= 0).filter(regex=r'Heat Rate').all(axis=1)
negative_filter(r) == \A m \in Months : AtMostZero(r.hr[m])

RECURSIVE SelectRecords(_, _)
SelectRecords(t, keep) ==
    IF t = <<>> THEN <<>>
    ELSE IF Head(t) \in keep THEN <<Head(t)>> \o SelectRecords(Tail(t), keep)
    ELSE SelectRecords(Tail(t), keep)

\* replace([0, inf], nan)[heat_rate_outputs > 0]: the heat rates of a record
\* that are finite and positive; the others are missing.
Masked(r) ==
    [m \in Months |->
        IF r.hr[m].t = "fin" /\ r.hr[m].p # 0 /\ GreaterThanZero(r.hr[m])
        THEN r.hr[m] ELSE nan]

\* The position of the smallest float of a row among the positions S.
ArgMin(row, S) ==
    CHOOSE m \in S : \A o \in S : FloatLE(row[m], row[o]) /\ (FloatLE(row[o], row[m]) => m <= o)

\* np.sort(...) along the row puts the missing values last; iloc[:, 1] is
\* the second value of the sorted row.
SecondOfSorted(row) ==
    LET present == {m \in DOMAIN row : row[m].t # "nan"}
    IN  IF Cardinality(present) < 2 THEN nan
        ELSE row[ArgMin(row, present \ {ArgMin(row, present)})]

\* pd.DataFrame(np.sort(...)).iloc[:, 1]: a Series labelled 0..k-1 by the
\* position of the record in the table.
SecondBest(t) == [i \in 1..Len(t) |-> SecondOfSorted(Masked(t[i]))]

\* .loc[:, 'Best Heat Rate'] = Series: the assignment aligns the labels of
\* the Series with the labels of the table; a label that the Series lacks
\* gets a missing value.
AssignBest(t, series) ==
    [i \in 1..Len(t) |->
        [t[i] EXCEPT !.best = IF t[i].idx + 1 \in DOMAIN series
                               THEN series[t[i].idx + 1] ELSE nan]]

InitWide ==
    /\ pc = "w_rates"
    /\ \E n \in 0..MaxRecords : heat_rate_outputs \in HeatRateTables(n)
    /\ negative_heat_rate_outputs = <<>>
    /\ IdleEarly
    /\ IdleAssign
    /\ IdleRest

\* Lines 967-987: the loop over the months.
ComputeMonthlyHeatRates ==
    /\ pc = "w_rates"
    /\ heat_rate_outputs' =
         [i \in 1..Len(heat_rate_outputs) |-> MonthlyHeatRates(heat_rate_outputs[i])]
    /\ pc' = "w_filter"
    /\ UNCHANGED <<negative_heat_rate_outputs, varsEarly, varsAssign, varsRest>>

\* Lines 990-994: the records with heat rates <= 0 in every month go to
\* negative_heat_rate_outputs.tab; the others keep their labels.
FilterNegative ==
    /\ pc = "w_filter"
    /\ negative_heat_rate_outputs' =
         SelectRecords(heat_rate_outputs,
                       {r \in Range(heat_rate_outputs) : negative_filter(r)})
    /\ heat_rate_outputs' =
         SelectRecords(heat_rate_outputs,
                       {r \in Range(heat_rate_outputs) : ~negative_filter(r)})
    /\ pc' = "w_best"
    /\ UNCHANGED <<varsEarly, varsAssign, varsRest>>

\* Lines 1000-1005: the best heat rate, and the file in wide format.
AssignBestHeatRate ==
    /\ pc = "w_best"
    /\ heat_rate_outputs' = AssignBest(heat_rate_outputs, SecondBest(heat_rate_outputs))
    /\ pc' = "w_done"
    /\ UNCHANGED <<negative_heat_rate_outputs, varsEarly, varsAssign, varsRest>>

NextWide ==
    \/ ComputeMonthlyHeatRates
    \/ FilterNegative
    \/ AssignBestHeatRate

SpecWide == InitWide /\ [][NextWide]_vars

\* The months of a record that count: net generation above zero and a heat
\* rate that is finite and above zero.
Qualifying(r) ==
    {m \in Months : r.netgen[m] > 0 /\ r.hr[m].t = "fin" /\ r.hr[m].p > 0}

\* x is the second smallest of the heat rates of the months S of record r.
IsSecondSmallest(x, r, S) ==
    \E a, b \in S :
        /\ a # b
        /\ \A o \in S : FloatLE(r.hr[a], r.hr[o])
        /\ \A o \in S \ {a} : FloatLE(r.hr[b], r.hr[o])
        /\ x = r.hr[b]

\* C11 (as claimed): every record kept in the heat-rate table has as its
\* 'Best Heat Rate' the second smallest of its own monthly heat rates, the
\* months without positive generation or with a heat rate that is zero,
\* negative or not finite left out; it is missing when fewer than two months
\* count.
C11_BestIsSecondSmallest ==
    pc = "w_done" =>
        \A i \in 1..Len(heat_rate_outputs) :
            LET r == heat_rate_outputs[i]
            IN  IF Cardinality(Qualifying(r)) < 2 THEN r.best = nan
                ELSE IsSecondSmallest(r.best, r, Qualifying(r))

(***************************************************************************)
(* assign_heat_rates_to_projects: implausible heat rates, the clamp of the *)
(* outliers and the substitutes                                            *)
(*                                                                         *)
(* A row of thermal_gens is [idx, PrimeMover, EnergySource, OperatingYear, *)
(* BestHeatRate]; a heat rate is [sum |-> s, n |-> k], the quotient s/k in *)
(* thousandths of MMBTU/MWh: a measured value has k = 1, a missing value   *)
(* k = 0, and a substitute is the sum and the number of the averaged       *)
(* values.                                                                 *)
(***************************************************************************)
MaxSpecialUnits == 3

BulkUnits == 198

MinCoalHeatRate == 8607

MinHeatRate == 6711

MaxHeatRate == 100000

Measured(x) == [sum |-> x, n |-> 1]

ThermalUnit(i, pm, es, oy, hr) ==
    [idx |-> i, PrimeMover |-> pm, EnergySource |-> es, OperatingYear |-> oy,
     BestHeatRate |-> hr]

\* The units that the table holds besides the bulk: combined cycles burning
\* gas and steam turbines burning coal, with a heat rate on a bound of the
\* band, just outside of it, inside of it, or without a heat rate.
SpecialUnits ==
    { <<"CC", "Gas", 2014, Measured(MinHeatRate)>>,
      <<"CC", "Gas", 2014, Measured(MinHeatRate - 1)>>,
      <<"CC", "Gas", 2014, Measured(MaxHeatRate)>>,
      <<"CC", "Gas", 2014, Measured(MaxHeatRate + 1)>>,
      <<"CC", "Gas", 2014, NoAverage>>,
      <<"ST", "Coal", 1980, Measured(MinCoalHeatRate)>>,
      <<"ST", "Coal", 1980, Measured(MinCoalHeatRate - 1)>>,
      <<"ST", "Coal", 1980, Measured(9000)>> }

\* thermal_gens after the merge of lines 400-404: some special units first,
\* then the bulk of the fleet, combined cycles of 2014 with a heat rate of
\* 7.500; the table is labelled 0..n-1.
ThermalGens(k, bulk) ==
    { [i \in 1..(k + bulk) |->
          IF i <= k THEN ThermalUnit(i - 1, f[i][1], f[i][2], f[i][3], f[i][4])
          ELSE ThermalUnit(i - 1, "CC", "Gas", 2014, Measured(7500))] :
        f \in [1..k -> SpecialUnits] }

null_heat_rates(r) == r.BestHeatRate.n = 0

\* Mutant: a heat rate on a bound of the band is unrealistic too.
unrealistic_heat_rates_onBound(r) ==
    /\ r.BestHeatRate.n = 1
    /\ \/ r.EnergySource = "Coal" /\ r.BestHeatRate.sum <= MinCoalHeatRate
       \/ r.EnergySource # "Coal" /\ r.BestHeatRate.sum <= MinHeatRate
       \/ r.BestHeatRate.sum >= MaxHeatRate

unrealistic_heat_rates(r) ==
    /\ r.BestHeatRate.n = 1
    /\ \/ r.EnergySource = "Coal" /\ r.BestHeatRate.sum < MinCoalHeatRate
       \/ r.EnergySource # "Coal" /\ r.BestHeatRate.sum < MinHeatRate
       \/ r.BestHeatRate.sum > MaxHeatRate

\* Mutant: one row in a hundred at each end.
Outliers_percent(n) == n \div 100

\* int(len(thermal_gens_w_hr) * 0.005)
Outliers(n) == (n * 5) \div 1000

\* sort_values('Best Heat Rate'): the rows by ascending heat rate.
sort_values(t) == SortSeq(t, LAMBDA a, b : a.BestHeatRate.sum < b.BestHeatRate.sum)

\* Mutant: only the largest values are clamped.
Clamp_topOnly(sorted, n, lo, hi) ==
    [k \in 1..Len(sorted) |->
        IF k > Len(sorted) - n THEN [sorted[k] EXCEPT !.BestHeatRate = Measured(hi)]
        ELSE sorted[k]]

\* Lines 443-445: the first n rows get min_hr, the last n rows max_hr.
Clamp(sorted, n, lo, hi) ==
    [k \in 1..Len(sorted) |->
        IF k <= n THEN [sorted[k] EXCEPT !.BestHeatRate = Measured(lo)]
        ELSE IF k > Len(sorted) - n THEN [sorted[k] EXCEPT !.BestHeatRate = Measured(hi)]
        ELSE sorted[k]]

\* thermal_gens_w_hr as calculate_avg_heat_rate reads it: the heat rates of
\* its rows are plain numbers.
AsNumbers(t) == [k \in 1..Len(t) |-> [t[k] EXCEPT !.BestHeatRate = @.sum]]

\* The while loop of calculate_avg_heat_rate.
RECURSIVE SearchLoop(_, _, _, _, _, _)
SearchLoop(df, pm, es, v, w, similar) ==
    IF Len(similar) < MinSimilar
    THEN LET wider == NextWindow(w)
             found == SimilarGenerators(df, pm, es, v, wider)
         IN  IF wider >= MaxWindow THEN found
             ELSE SearchLoop(df, pm, es, v, wider, found)
    ELSE similar

calculate_avg_heat_rate(df, pm, es, v) ==
    LET similar == SearchLoop(df, pm, es, v, DefaultWindow,
                              SimilarGenerators(df, pm, es, v, DefaultWindow))
    IN  IF HasSimilar(similar) THEN mean(similar)
        ELSE mean(TechnologyGenerators(df, pm))

InitAssign ==
    /\ pc = "a_split"
    /\ \E k \in 0..MaxSpecialUnits : \E bulk \in {0, BulkUnits} :
         thermal_gens \in ThermalGens(k, bulk)
    /\ thermal_gens_w_hr = <<>>
    /\ thermal_gens_wo_hr = <<>>
    /\ n_outliers = 0
    /\ min_hr = 0
    /\ max_hr = 0
    /\ IdleEarly
    /\ IdleWide
    /\ IdleRest

\* Lines 408-419: the units with and without a valid heat rate.
SplitHeatRates ==
    /\ pc = "a_split"
    /\ thermal_gens_w_hr' =
         SelectSeq(thermal_gens,
                   LAMBDA r : ~null_heat_rates(r) /\ ~unrealistic_heat_rates(r))
    /\ thermal_gens_wo_hr' =
         SelectSeq(thermal_gens,
                   LAMBDA r : null_heat_rates(r) \/ unrealistic_heat_rates(r))
    /\ pc' = "a_clamp"
    /\ UNCHANGED <<thermal_gens, n_outliers, min_hr, max_hr, varsEarly, varsWide, varsRest>>

\* Lines 434-445: the clamp of the outliers.  Without any valid heat rate,
\* thermal_gens_w_hr.index[n_outliers] raises an IndexError.
ClampOutliers ==
    /\ pc = "a_clamp"
    /\ IF thermal_gens_w_hr = <<>>
       THEN /\ pc' = "a_error"
            /\ UNCHANGED <<thermal_gens_w_hr, n_outliers, min_hr, max_hr>>
       ELSE LET n == Outliers(Len(thermal_gens_w_hr))
                sorted == sort_values(thermal_gens_w_hr)
                lo == sorted[n + 1].BestHeatRate.sum
                hi == sorted[Len(sorted) - n].BestHeatRate.sum
            IN  /\ n_outliers' = n
                /\ min_hr' = lo
                /\ max_hr' = hi
                /\ thermal_gens_w_hr' = Clamp(sorted, n, lo, hi)
                /\ pc' = "a_impute"
    /\ UNCHANGED <<thermal_gens, thermal_gens_wo_hr, varsEarly, varsWide, varsRest>>

\* Lines 473-479: the substitutes of the units without a valid heat rate.
AssignAverages ==
    /\ pc = "a_impute"
    /\ thermal_gens_wo_hr' =
         [k \in 1..Len(thermal_gens_wo_hr) |->
             [thermal_gens_wo_hr[k] EXCEPT !.BestHeatRate =
                 calculate_avg_heat_rate(AsNumbers(thermal_gens_w_hr),
                                         thermal_gens_wo_hr[k].PrimeMover,
                                         thermal_gens_wo_hr[k].EnergySource,
                                         thermal_gens_wo_hr[k].OperatingYear)]]
    /\ pc' = "a_concat"
    /\ UNCHANGED <<thermal_gens, thermal_gens_w_hr, n_outliers, min_hr, max_hr,
                   varsEarly, varsWide, varsRest>>

\* Line 481: pd.concat([thermal_gens_w_hr, thermal_gens_wo_hr], axis=0)
ConcatThermalGens ==
    /\ pc = "a_concat"
    /\ thermal_gens' = thermal_gens_w_hr \o thermal_gens_wo_hr
    /\ pc' = "a_done"
    /\ UNCHANGED <<thermal_gens_w_hr, thermal_gens_wo_hr, n_outliers, min_hr, max_hr,
                   varsEarly, varsWide, varsRest>>

NextAssign ==
    \/ SplitHeatRates
    \/ ClampOutliers
    \/ AssignAverages
    \/ ConcatThermalGens

SpecAssign == InitAssign /\ [][NextAssign]_vars

\* The row of thermal_gens with the label of row r, as long as thermal_gens
\* is the table that was split (until the concat of line 481); that table is
\* labelled 0..n-1 in the order of its rows.
Original(r) == thermal_gens[r.idx + 1]

\* The band of the plausible heat rates of a fuel.
InBand(es, x) ==
    /\ x >= (IF es = "Coal" THEN MinCoalHeatRate ELSE MinHeatRate)
    /\ x <= MaxHeatRate

IsValid(o) == o.BestHeatRate.n = 1 /\ InBand(o.EnergySource, o.BestHeatRate.sum)

\* C12: a unit with a measured heat rate outside of the band of its fuel is
\* treated as a unit without a heat rate: it is not among the units that are
\* clamped and averaged, and its value in the output is the substitute of
\* its technology, fuel and year, the same that a unit without a heat rate
\* gets; a unit with a heat rate on a bound of the band is among the valid
\* ones.
C12_ImplausibleIsMissing ==
    pc \in {"a_clamp", "a_impute", "a_concat"} =>
        /\ Len(thermal_gens_w_hr) + Len(thermal_gens_wo_hr) = Len(thermal_gens)
        /\ \A k \in 1..Len(thermal_gens_w_hr) :
              /\ Original(thermal_gens_w_hr[k]).idx = thermal_gens_w_hr[k].idx
              /\ IsValid(Original(thermal_gens_w_hr[k]))
        /\ \A k \in 1..Len(thermal_gens_wo_hr) :
              /\ Original(thermal_gens_wo_hr[k]).idx = thermal_gens_wo_hr[k].idx
              /\ ~IsValid(Original(thermal_gens_wo_hr[k]))
        /\ \A a, b \in 1..Len(thermal_gens_wo_hr) :
              thermal_gens_wo_hr[a].idx = thermal_gens_wo_hr[b].idx => a = b
        /\ pc = "a_concat" =>
              \A a \in 1..Len(thermal_gens_wo_hr) :
                  LET r == thermal_gens_wo_hr[a]
                  IN  /\ r.BestHeatRate =
                            calculate_avg_heat_rate(AsNumbers(thermal_gens_w_hr),
                                r.PrimeMover, r.EnergySource, r.OperatingYear)
                      /\ \A b \in 1..Len(thermal_gens_wo_hr) :
                            ( /\ thermal_gens_wo_hr[b].PrimeMover = r.PrimeMover
                              /\ thermal_gens_wo_hr[b].EnergySource = r.EnergySource
                              /\ thermal_gens_wo_hr[b].OperatingYear = r.OperatingYear )
                            => thermal_gens_wo_hr[b].BestHeatRate = r.BestHeatRate

\* C12 witness: a gas unit with 6.710, a gas unit without a heat rate and a
\* gas unit with 6.711 next to the bulk of the fleet; the first two got the
\* same average of peers, the third is among the valid units.
C12_Witness ==
    /\ pc = "a_concat"
    /\ Len(thermal_gens_wo_hr) = 2
    /\ Original(thermal_gens_wo_hr[1]).BestHeatRate = Measured(MinHeatRate - 1)
    /\ Original(thermal_gens_wo_hr[2]).BestHeatRate = NoAverage
    /\ thermal_gens_wo_hr[1].BestHeatRate.n >= 4
    /\ thermal_gens_wo_hr[1].BestHeatRate = thermal_gens_wo_hr[2].BestHeatRate
    /\ \E k \in 1..Len(thermal_gens_w_hr) :
          Original(thermal_gens_w_hr[k]).BestHeatRate = Measured(MinHeatRate)

\* C13 (as claimed): every unit that keeps a measured heat rate, clamped or
\* not, has it within the band of its fuel.
C13_MeasuredWithinBand ==
    pc \in {"a_impute", "a_concat", "a_done"} =>
        \A k \in 1..Len(thermal_gens_w_hr) :
            InBand(thermal_gens_w_hr[k].EnergySource, thermal_gens_w_hr[k].BestHeatRate.sum)

\* The heat rate of row k of thermal_gens_w_hr before and after the clamp.
Before(k) == Original(thermal_gens_w_hr[k]).BestHeatRate.sum

After(k) == thermal_gens_w_hr[k].BestHeatRate.sum

\* v is the value at position p (counted from 0) of the ascending heat rates
\* before the clamp.
IsAtSortedPosition(v, p) ==
    /\ Cardinality({k \in 1..Len(thermal_gens_w_hr) : Before(k) < v}) <= p
    /\ Cardinality({k \in 1..Len(thermal_gens_w_hr) : Before(k) <= v}) > p

\* C14: after the clamp of N valid heat rates with n = floor(N * 0.005), no
\* value is below the value that was at sorted position n, none is above
\* the value that was at sorted position N-1-n, and the rows are the same
\* N rows.
C14_ClampBounds ==
    pc \in {"a_impute", "a_concat"} =>
        LET N == Cardinality({k \in 1..Len(thermal_gens) : IsValid(thermal_gens[k])})
            n == (N * 5) \div 1000
            values == {Before(k) : k \in 1..Len(thermal_gens_w_hr)}
        IN  /\ Len(thermal_gens_w_hr) = N
            /\ \A k \in 1..N : IsValid(Original(thermal_gens_w_hr[k]))
            /\ Cardinality({thermal_gens_w_hr[k].idx : k \in 1..N}) = N
            /\ \E lo \in values : IsAtSortedPosition(lo, n)
            /\ \E hi \in values : IsAtSortedPosition(hi, N - 1 - n)
            /\ \A lo \in values :
                  IsAtSortedPosition(lo, n) => \A k \in 1..N : After(k) >= lo
            /\ \A hi \in values :
                  IsAtSortedPosition(hi, N - 1 - n) => \A k \in 1..N : After(k) <= hi

\* The rows whose heat rate the clamp has changed.
Altered == {k \in 1..Len(thermal_gens_w_hr) : After(k) # Before(k)}

\* C14 witness: 200 valid heat rates, the smallest and the largest of which
\* were replaced.
C14_Witness ==
    /\ pc = "a_impute"
    /\ Len(thermal_gens_w_hr) = 200
    /\ n_outliers = 1
    /\ Cardinality(Altered) = 2

\* C15 (as claimed): the clamp alters 2 * floor(N * 0.005) values.
C15_AlteredCount ==
    pc \in {"a_impute", "a_concat"} =>
        Cardinality(Altered) = 2 * ((Len(thermal_gens_w_hr) * 5) \div 1000)

\* C15 (amended): the clamp assigns the floor(N * 0.005) smallest and the
\* floor(N * 0.005) largest values; the values that it alters are those
\* strictly below the lower boundary value and those strictly above the
\* upper one, and they are at most 2 * floor(N * 0.005).
C15_AlteredAtMost ==
    pc \in {"a_impute", "a_concat"} =>
        /\ Cardinality(Altered) <= 2 * ((Len(thermal_gens_w_hr) * 5) \div 1000)
        /\ IsAtSortedPosition(min_hr, (Len(thermal_gens_w_hr) * 5) \div 1000)
        /\ IsAtSortedPosition(max_hr, Len(thermal_gens_w_hr) - 1
                                        - (Len(thermal_gens_w_hr) * 5) \div 1000)
        /\ Altered = {k \in 1..Len(thermal_gens_w_hr) :
                         Before(k) < min_hr \/ Before(k) > max_hr}

\* C15 witness: of the 200 valid heat rates the two smallest are equal, and
\* the clamp alters only the largest one.
C15_Witness ==
    /\ pc = "a_impute"
    /\ Len(thermal_gens_w_hr) = 200
    /\ n_outliers = 1
    /\ Cardinality(Altered) = 1

(***************************************************************************)
(* filter_plants_by_region_id (database_interface.py, lines 131-255)       *)
(***************************************************************************)
\* The largest number of units in generation_projects_<year>.tab.
MaxUnits == 2

\* The largest number of calls of filter_plants_by_region_id for one year
\* (the function is called at lines 288 and 543).
MaxCalls == 2

Ada == <<65, 100, 97>>

ADA == <<65, 68, 65>>

McKinley == <<77, 99, 75, 105, 110, 108, 101, 121>>

Utah == <<85, 116, 97, 104>>

Elko == <<69, 108, 107, 111>>

Idaho == <<73, 100, 97, 104, 111>>

Nevada == <<78, 101, 118, 97, 100, 97>>

NewMexico == <<78, 101, 119, 32, 77, 101, 120, 105, 99, 111>>

ID == <<73, 68>>

NV == <<78, 86>>

NM == <<78, 77>>

UT == <<85, 84>>

WECC == <<87, 69, 67, 67>>

SERC == <<83, 69, 82, 67>>

BIT == <<66, 73, 84>>

COAL == <<67, 79, 65, 76>>

\* 'ANT','BIT','LIG','SGC','SUB','WC','RC'
coal_codes ==
    { <<65, 78, 84>>, <<66, 73, 84>>, <<76, 73, 71>>, <<83, 71, 67>>,
      <<83, 85, 66>>, <<87, 67>>, <<82, 67>> }

\* The entries of state_dict for the states of the counties below.
state_dict ==
    { <<Idaho, ID>>, <<Nevada, NV>>, <<NewMexico, NM>>, <<Utah, UT>> }

\* DataFrame.replace(state_dict) on one cell, whatever its column.
replace(c) ==
    IF c.t = "str" /\ \E p \in state_dict : p[1] = c.s
    THEN Str((CHOOSE p \in state_dict : p[1] = c.s)[2])
    ELSE c

IsUpper(ch) == ch \in 65..90

IsLower(ch) == ch \in 97..122

upper(ch) == IF IsLower(ch) THEN ch - 32 ELSE ch

lower(ch) == IF IsUpper(ch) THEN ch + 32 ELSE ch

\* str.title(): a letter that follows a letter is lowered, any other letter
\* is raised.
title(cs) ==
    [i \in 1..Len(cs) |->
        IF i > 1 /\ (IsUpper(cs[i - 1]) \/ IsLower(cs[i - 1]))
        THEN lower(cs[i]) ELSE upper(cs[i])]

\* str(c) of a cell of the column County: 'nan' for a missing value.
CellStr(c) == IF isnull(c) THEN <<110, 97, 110>> ELSE c.s

\* The name of the region with gid = region_id (line 201).
region_name == WECC

\* The values of the parameter area, in percent; 50 is the default.
Areas == {40, 50, 60}

\* The counties of the geographic database with the part of their area, in
\* percent, that lies in the region.
us_counties ==
    << [name |-> Ada, state |-> Idaho, fraction |-> 50],
       [name |-> McKinley, state |-> NewMexico, fraction |-> 100],
       [name |-> Utah, state |-> Utah, fraction |-> 100],
       [name |-> Elko, state |-> Nevada, fraction |-> 49] >>

\* Lines 208-219: the counties with at least the fraction a of their area in
\* the region, with the columns renamed to County and State.
CountiesQuery(a) ==
    LET hits == SelectSeq(us_counties, LAMBDA c : c.fraction >= a)
    IN  [i \in 1..Len(hits) |->
            [County |-> Str(hits[i].name), State |-> Str(hits[i].state)]]

\* Line 220: region_counties.replace(state_dict, inplace=True)
ReplaceStates(t) ==
    [i \in 1..Len(t) |->
        [County |-> replace(t[i].County), State |-> replace(t[i].State)]]

\* The texts that read_csv takes for a missing value.
na_values ==
    { <<>>, <<78, 65>>, <<78, 47, 65>>, <<78, 85, 76, 76>>, <<78, 97, 78>>,
      <<110, 97, 110>>, <<110, 117, 108, 108>> }

\* to_csv writes a missing value as the empty text.
to_csv(t) ==
    [i \in 1..Len(t) |->
        [County |-> IF isnull(t[i].County) THEN <<>> ELSE t[i].County.s,
         State |-> IF isnull(t[i].State) THEN <<>> ELSE t[i].State.s]]

read_csv_cell(text) == IF text \in na_values THEN NaN ELSE Str(text)

read_csv(f) ==
    [i \in 1..Len(f) |->
        [County |-> read_csv_cell(f[i].County), State |-> read_csv_cell(f[i].State)]]

\* A unit of generation_projects_<year>.tab.
Unit(code, kind) ==
    [PlantCode |-> code, NercRegion |-> kind[1], County |-> kind[2],
     State |-> kind[3], EnergySource |-> kind[4]]

\* The kinds of units: the region of the form, the county, the state and
\* the energy source.
UnitKinds ==
    { <<Str(WECC), Str(Ada), Str(ID), Str(BIT)>>,
      <<Str(WECC), Str(Elko), Str(NV), Str(NG)>>,
      <<Str(SERC), Str(Ada), Str(ID), Str(NG)>>,
      <<NaN, Str(Ada), Str(ID), Str(NG)>>,
      <<NaN, Str(Ada), Str(ID), Str(BIT)>>,
      <<NaN, Str(ADA), Str(ID), Str(NG)>>,
      <<NaN, Str(McKinley), Str(NM), Str(NG)>>,
      <<NaN, Str(Utah), Str(UT), Str(NG)>>,
      <<NaN, Str(Elko), Str(NV), Str(NG)>>,
      <<NaN, NaN, Str(ID), Str(NG)>> }

GenerationProjects(n) ==
    { [i \in 1..n |-> Unit(i, kinds[i])] : kinds \in [1..n -> UnitKinds] }

\* Line 228: the county names in title case.
TitleCounties(t) ==
    [i \in 1..Len(t) |->
        [t[i] EXCEPT !.County = Str(title(CellStr(t[i].County)))]]

\* Line 234: pd.merge(generators, region_counties, how='inner',
\* on=['County','State']): one row for every pair of a unit and a row of
\* region_counties with the same county and state, in the order of the units.
RECURSIVE MergeCounties(_, _)
MergeCounties(t, counties) ==
    IF t = <<>> THEN <<>>
    ELSE LET u == Head(t)
             hits == SelectSeq(counties,
                               LAMBDA c : c.County = u.County /\ c.State = u.State)
         IN  [i \in 1..Len(hits) |-> u] \o MergeCounties(Tail(t), counties)

\* Lines 242-244: the coal codes of the column Energy Source become COAL.
ReplaceCoal(t) ==
    [i \in 1..Len(t) |->
        IF t[i].EnergySource.t = "str" /\ t[i].EnergySource.s \in coal_codes
        THEN [t[i] EXCEPT !.EnergySource = Str(COAL)] ELSE t[i]]

InitRegion ==
    /\ pc = "r_counties"
    /\ area \in Areas
    /\ counties_file = Absent
    /\ region_counties = <<>>
    /\ geo_queries = 0
    /\ \E n \in 0..MaxUnits : generation_projects \in GenerationProjects(n)
    /\ region_generators = <<>>
    /\ n_calls = 1
    /\ IdleEarly
    /\ IdleWide
    /\ IdleAssign
    /\ IdleUpload
    /\ IdleThird

\* Lines 204-223: the counties of the region, from the file if it exists and
\* from the geographic database otherwise.
ResolveCounties ==
    /\ pc = "r_counties"
    /\ IF counties_file = Absent
       THEN /\ geo_queries' = geo_queries + 1
            /\ region_counties' = ReplaceStates(CountiesQuery(area))
            /\ counties_file' = to_csv(region_counties')
       ELSE /\ region_counties' = read_csv(counties_file)
            /\ UNCHANGED <<geo_queries, counties_file>>
    /\ pc' = "r_read"
    /\ UNCHANGED <<area, generation_projects, region_generators, n_calls,
                   varsEarly, varsWide, varsAssign, varsUpload,
                   varsThird>>

\* Lines 226-228: the units of the year, with their county in title case.
ReadGenerationProjects ==
    /\ pc = "r_read"
    /\ region_generators' = TitleCounties(generation_projects)
    /\ pc' = "r_filter"
    /\ UNCHANGED <<area, counties_file, region_counties, geo_queries,
                   generation_projects, n_calls, varsEarly, varsWide, varsAssign, varsUpload,
                   varsThird>>

\* Lines 235-244: the units of the region.
FilterByRegion ==
    /\ pc = "r_filter"
    /\ LET generators_with_assigned_region ==
               SelectSeq(region_generators,
                         LAMBDA u : u.NercRegion = Str(region_name))
           without_region ==
               SelectSeq(region_generators, LAMBDA u : isnull(u.NercRegion))
           generators_without_assigned_region ==
               MergeCounties(without_region, region_counties)
       IN  region_generators' =
               ReplaceCoal(generators_with_assigned_region
                           \o generators_without_assigned_region)
    /\ pc' = "r_done"
    /\ UNCHANGED <<area, counties_file, region_counties, geo_queries,
                   generation_projects, n_calls, varsEarly, varsWide, varsAssign, varsUpload,
                   varsThird>>

\* Lines 288 and 543: the function is called again for the same year.
CallAgain ==
    /\ pc = "r_done"
    /\ n_calls < MaxCalls
    /\ n_calls' = n_calls + 1
    /\ area' \in Areas
    /\ region_counties' = <<>>
    /\ region_generators' = <<>>
    /\ pc' = "r_counties"
    /\ UNCHANGED <<counties_file, geo_queries, generation_projects,
                   varsEarly, varsWide, varsAssign, varsUpload,
                   varsThird>>

NextRegion ==
    \/ ResolveCounties
    \/ ReadGenerationProjects
    \/ FilterByRegion
    \/ CallAgain

SpecRegion == InitRegion /\ [][NextRegion]_vars

\* The county names a and b are the same up to the case of their letters.
SameCounty(a, b) ==
    /\ a.t = "str"
    /\ b.t = "str"
    /\ [i \in 1..Len(a.s) |-> lower(a.s[i])] = [i \in 1..Len(b.s) |-> lower(b.s[i])]

\* The unit u of the file is in the region: its region is the region asked
\* for, or it has no region and its county and state are in region_counties.
InRegion(u) ==
    \/ u.NercRegion = Str(region_name)
    \/ /\ isnull(u.NercRegion)
       /\ \E k \in 1..Len(region_counties) :
            /\ SameCounty(u.County, region_counties[k].County)
            /\ u.State = region_counties[k].State

\* The number of rows of the result for the unit u.
RowsOf(u) ==
    Cardinality({k \in 1..Len(region_generators) :
                    region_generators[k].PlantCode = u.PlantCode})

\* C16: filter_plants_by_region_id returns exactly the units whose region is
\* the region asked for and the units without a region whose (County, State)
\* pair is in the resolved list of counties (the county names compared
\* without regard to the case of their letters); every other unit is left
\* out and no unit is returned twice.
C16_ExactlyTheUnitsOfTheRegion ==
    pc = "r_done" =>
        \A i \in 1..Len(generation_projects) :
            RowsOf(generation_projects[i]) =
                IF InRegion(generation_projects[i]) THEN 1 ELSE 0

\* The counties that have at least the fraction a of their area in the
\* region, as pairs of the name of the county and the code of its state.
Members(a) ==
    { <<Str(us_counties[k].name), replace(Str(us_counties[k].state))>> :
        k \in {j \in 1..Len(us_counties) : us_counties[j].fraction >= a} }

Pairs(t) == { <<t[k].County, t[k].State>> : k \in 1..Len(t) }

\* C17: a call that finds the file of counties uses it and sends no
\* geographic query; a call that does not find it takes the counties with at
\* least the fraction area of their area in the region and writes them to
\* the file before it uses them, and a later call reads the same list back.
C17_CountiesAreCached ==
    [][(pc = "r_counties") =>
         IF counties_file # Absent
         THEN /\ geo_queries' = geo_queries
              /\ counties_file' = counties_file
              /\ region_counties' = read_csv(counties_file)
         ELSE /\ geo_queries' = geo_queries + 1
              /\ Pairs(region_counties') = Members(area)
              /\ counties_file' # Absent
              /\ read_csv(counties_file') = region_counties']_vars

(***************************************************************************)
(* upload_generation_projects (database_interface.py, lines 739-796): the  *)
(* retired capacity is taken out of the projects and max_age is computed.  *)
(* Capacities are in MW.                                                   *)
(***************************************************************************)
\* The largest number of rows of generators.
MaxProjects == 2

\* A row of generators: a plant, technology, energy source and operating
\* year of existing_generation_projects_<year>.tab or of
\* new_generation_projects_<year>.tab.
GenerationProject(es, oy, pry) ==
    [EIAPlantCode |-> 1, PrimeMover |-> "ST", State |-> "CA", County |-> "Kern",
     OperatingYear |-> oy, EnergySource |-> es, Nameplate |-> 100,
     PlannedRetirementYear |-> pry]

\* The values of the column Planned Retirement Year: missing, blank, zero
\* and years.
PlannedRetirementYears == {NaN, Str(Blank), Num(0), Num(1980), Num(2010), Num(2030)}

ProjectKinds ==
    { GenerationProject(es, oy, pry) :
        es \in {"Coal", "Gas"}, oy \in {1980, 2020}, pry \in PlannedRetirementYears }

\* The tables of n projects: one row for a plant, technology, energy source
\* and operating year (scrape.py aggregates the units by these columns).
UploadGenerators(n) ==
    { t \in [1..n -> ProjectKinds] :
        \A i, j \in 1..n :
            (i # j) => <<t[i].EnergySource, t[i].OperatingYear>>
                         # <<t[j].EnergySource, t[j].OperatingYear>> }

\* A row of retired_WECC_aggregated_generation_projects_<year>.tab, with its
\* capacity column renamed (line 746).
RetiredProject(mw) ==
    [EIAPlantCode |-> 1, PrimeMover |-> "ST", State |-> "CA", County |-> "Kern",
     OperatingYear |-> 1980, retired_capacity_mw |-> mw, RetirementYear |-> 2019]

RetiredCapacities == {40, 100, 150}

\* The tables of retired projects of the plant: none, the retired units of
\* one energy source, or those of coal and those of gas (scrape.py, lines
\* 581-601, aggregates the retired units by plant, technology, energy source
\* and operating year and then drops the column Energy Source).
RetiredTables ==
    {<<>>}
    \cup { <<RetiredProject(a)>> : a \in RetiredCapacities }
    \cup { <<RetiredProject(a), RetiredProject(b)>> :
             a \in RetiredCapacities, b \in RetiredCapacities }

\* Line 751
index_cols(r) == <<r.EIAPlantCode, r.PrimeMover, r.State, r.County, r.OperatingYear>>

\* A row of the joined table: the project, the columns of the retired
\* project (missing when there is none) and the net capacity of line 756.
Joined(g, mw, ry) ==
    [EIAPlantCode |-> g.EIAPlantCode, PrimeMover |-> g.PrimeMover,
     State |-> g.State, County |-> g.County, OperatingYear |-> g.OperatingYear,
     EnergySource |-> g.EnergySource, Nameplate |-> g.Nameplate,
     PlannedRetirementYear |-> g.PlannedRetirementYear,
     retired_capacity_mw |-> mw, RetirementYear |-> ry,
     net_operating_capacity_limit_mw |->
         IF isnull(mw) THEN NaN ELSE Num(g.Nameplate - mw.n)]

\* Line 753: pd.merge(generators, retired_gens, on=index_cols, how='left')
RECURSIVE LeftMerge(_, _)
LeftMerge(left, right) ==
    IF left = <<>> THEN <<>>
    ELSE LET g == Head(left)
             hits == SelectSeq(right, LAMBDA r : index_cols(r) = index_cols(g))
         IN  (IF hits = <<>> THEN <<Joined(g, NaN, NaN)>>
              ELSE [k \in 1..Len(hits) |->
                       Joined(g, Num(hits[k].retired_capacity_mw),
                              Num(hits[k].RetirementYear))])
             \o LeftMerge(Tail(left), right)

\* Line 759: the rows whose net capacity is not 0 (a missing value is not 0).
NotRetired(t) ==
    SelectSeq(t, LAMBDA r : ~ (r.net_operating_capacity_limit_mw = Num(0)))

\* Line 763: np.where(net > 0, net, Nameplate Capacity (MW))
NetCapacity(r) ==
    IF ~ isnull(r.net_operating_capacity_limit_mw)
       /\ r.net_operating_capacity_limit_mw.n > 0
    THEN r.net_operating_capacity_limit_mw.n
    ELSE r.Nameplate

\* Lines 771-772: a blank Planned Retirement Year becomes 0 and the column
\* becomes a column of floats.
RetirementYearAsFloat(c) == IF c = Str(Blank) THEN Num(0) ELSE c

\* Lines 774-776: np.where(Planned Retirement Year > 0,
\* Planned Retirement Year - Operating Year, 0), as an integer.
max_age(pry, oy) ==
    IF ~ isnull(pry) /\ pry.n > 0 THEN pry.n - oy ELSE 0

\* Lines 792-793: the columns of the retired projects are dropped.
DropRetiredColumns(r) ==
    [EIAPlantCode |-> r.EIAPlantCode, PrimeMover |-> r.PrimeMover,
     State |-> r.State, County |-> r.County, OperatingYear |-> r.OperatingYear,
     EnergySource |-> r.EnergySource, Nameplate |-> r.Nameplate,
     PlannedRetirementYear |-> r.PlannedRetirementYear,
     RetirementYear |-> r.RetirementYear, max_age |-> r.max_age]

InitUpload ==
    /\ pc = "u_join"
    /\ \E n \in 0..MaxProjects : upload_generators \in UploadGenerators(n)
    /\ retired_gens \in RetiredTables
    /\ generators_and_retired = <<>>
    /\ generators_no_retired = <<>>
    /\ IdleEarly
    /\ IdleWide
    /\ IdleAssign
    /\ IdleRegion
    /\ IdleThird

\* Lines 744-756: the projects joined with the retired projects, and the net
\* capacity.
JoinRetired ==
    /\ pc = "u_join"
    /\ generators_and_retired' = LeftMerge(upload_generators, retired_gens)
    /\ pc' = "u_net"
    /\ UNCHANGED <<upload_generators, retired_gens, generators_no_retired,
                   varsEarly, varsWide, varsAssign, varsRegion,
                   varsThird>>

\* Lines 759-763: the projects with no capacity left are dropped and the
\* capacity of the others is their net capacity when that is positive.
DropRetired ==
    /\ pc = "u_net"
    /\ LET kept == NotRetired(generators_and_retired)
       IN  generators_no_retired' =
               [k \in 1..Len(kept) |-> [kept[k] EXCEPT !.Nameplate = NetCapacity(kept[k])]]
    /\ pc' = "u_age"
    /\ UNCHANGED <<upload_generators, retired_gens, generators_and_retired,
                   varsEarly, varsWide, varsAssign, varsRegion,
                   varsThird>>

\* Lines 771-776: max_age.
CalculateMaxAge ==
    /\ pc = "u_age"
    /\ generators_no_retired' =
         [k \in 1..Len(generators_no_retired) |->
            LET r == generators_no_retired[k]
                pry == RetirementYearAsFloat(r.PlannedRetirementYear)
            IN  [f \in DOMAIN r \cup {"max_age"} |->
                    IF f = "max_age" THEN max_age(pry, r.OperatingYear)
                    ELSE IF f = "PlannedRetirementYear" THEN pry
                    ELSE r[f]]]
    /\ pc' = "u_save"
    /\ UNCHANGED <<upload_generators, retired_gens, generators_and_retired,
                   varsEarly, varsWide, varsAssign, varsRegion,
                   varsThird>>

\* Lines 779-796: both tables are saved, and generators becomes the table
\* without the retired projects and without the columns of the join.
SaveNonRetired ==
    /\ pc = "u_save"
    /\ upload_generators' =
         [k \in 1..Len(generators_no_retired) |->
            DropRetiredColumns(generators_no_retired[k])]
    /\ pc' = "u_done"
    /\ UNCHANGED <<retired_gens, generators_and_retired, generators_no_retired,
                   varsEarly, varsWide, varsAssign, varsRegion,
                   varsThird>>

NextUpload ==
    \/ JoinRetired
    \/ DropRetired
    \/ CalculateMaxAge
    \/ SaveNonRetired

SpecUpload == InitUpload /\ [][NextUpload]_vars

\* The rows a and b are rows of the same project.
SameProject(a, b) ==
    /\ index_cols(a) = index_cols(b)
    /\ a.EnergySource = b.EnergySource

\* The capacities that the project of the row m has in the table without the
\* retired projects.
CapacitiesOf(m) ==
    { generators_no_retired[k].Nameplate :
        k \in {j \in 1..Len(generators_no_retired) :
                 SameProject(generators_no_retired[j], m)} }

\* C18: for every project and retired project that matches it, the net
\* capacity is the nameplate capacity less the retired capacity; when it is
\* exactly 0 the project is not in the table without the retired projects,
\* when it is positive the project is there with the net capacity as its
\* capacity, and a project that no retired project matches is there with its
\* capacity unchanged.
C18_RetiredCapacityIsNetted ==
    pc \in {"u_age", "u_save", "u_done"} =>
        \A k \in 1..Len(generators_and_retired) :
            LET m == generators_and_retired[k]
                net == m.net_operating_capacity_limit_mw
            IN  /\ isnull(m.retired_capacity_mw) => CapacitiesOf(m) = {m.Nameplate}
                /\ ~ isnull(m.retired_capacity_mw) =>
                     /\ net = Num(m.Nameplate - m.retired_capacity_mw.n)
                     /\ (net.n = 0) => CapacitiesOf(m) = {}
                     /\ (net.n > 0) => CapacitiesOf(m) = {net.n}

\* C19: a project whose matched retired capacity is larger than its nameplate
\* capacity stays in the table without the retired projects with its
\* capacity as it was, the negative net capacity is kept in the saved tables,
\* and the run goes on to its end.
C19_NegativeNetIsKept ==
    /\ pc \in {"u_join", "u_net", "u_age", "u_save"} => ENABLED NextUpload
    /\ pc \in {"u_age", "u_save", "u_done"} =>
        \A k \in 1..Len(generators_and_retired) :
            LET m == generators_and_retired[k]
                net == m.net_operating_capacity_limit_mw
            IN  (~ isnull(net) /\ net.n < 0) =>
                    /\ CapacitiesOf(m) = {m.Nameplate}
                    /\ \E j \in 1..Len(generators_no_retired) :
                         /\ SameProject(generators_no_retired[j], m)
                         /\ generators_no_retired[j].net_operating_capacity_limit_mw = net

\* C20: for every project that is kept, max_age is Planned Retirement Year
\* less Operating Year when that is positive and 0 in every other case, so
\* max_age is never negative.
C20_MaxAgeIsPositiveOrZero ==
    pc \in {"u_save", "u_done"} =>
        \A k \in 1..Len(generators_no_retired) :
            LET r == generators_no_retired[k]
                pry == r.PlannedRetirementYear
            IN  /\ r.max_age >= 0
                /\ r.max_age = IF ~ isnull(pry) /\ pry.n - r.OperatingYear > 0
                               THEN pry.n - r.OperatingYear ELSE 0

(***************************************************************************)
(* parse_eia923_data: the hydro profiles in wide and in narrow format      *)
(* (scrape.py, lines 838-909)                                              *)
(***************************************************************************)

\* The largest number of rows of hydro_generation.
MaxHydro == 2

\* monthrange(int(year), month)[1]
DaysInMonth(y, m) ==
    IF m = 2 THEN (IF y % 4 = 0 /\ (y % 100 # 0 \/ y % 400 = 0) THEN 29 ELSE 28)
    ELSE IF m \in {4, 6, 9, 11} THEN 30 ELSE 31

\* The sum of a float and a whole number.
AddNumber(x, k) == IF x.t = "fin" THEN Float(x.p + k * x.q, x.q) ELSE x

\* Series.replace(to_replace='.', value=0) on a cell of 'Elec Quantity'.
ReplaceDot(c) == IF c = Str(Dot) THEN Num(0) ELSE c

\* The plants and prime movers of the hydro tables: both tables hold one row
\* for a plant and prime mover (lines 728-731 and 747-753).
HydroKeys == << <<1, "HY">>, <<1, "PS">>, <<2, "HY">> >>

\* A row of hydro_generation: its net generation and the electricity it
\* consumed in the first month are given, the other months are fixed.
HydroGenerationRow(y, key, netgen1, elec1) ==
    [Year |-> y, PlantCode |-> key[1], PlantName |-> IF key[1] = 1 THEN Str(G1) ELSE NaN,
     PrimeMover |-> key[2],
     netgen |-> [m \in Months |-> IF m = 1 THEN netgen1 ELSE Float(10 * m, 1)],
     elec |-> [m \in Months |-> IF m = 1 THEN elec1 ELSE Num(0)]]

\* A row of hydro_gen_projects.
HydroProject(key, mw) ==
    [PlantCode |-> key[1], PrimeMover |-> key[2], Nameplate |-> mw,
     County |-> IF key[1] = 1 THEN Str(Ada) ELSE NaN, State |-> Str(ID)]

\* The rows of the keys chosen by the function f (<<>>: no row), in the order
\* of the keys.
RowsOfKeys(keys, f, Row(_, _)) ==
    LET chosen == SelectSeq([k \in 1..Len(keys) |-> k], LAMBDA k : f[k] # <<>>)
    IN  [j \in 1..Len(chosen) |-> Row(keys[chosen[j]], f[chosen[j]])]

HydroGenerationTables(y, n) ==
    LET choices == { <<a, b>> : a \in {Float(100, 1), nan}, b \in {Num(10), Str(Dot)} }
        Row(key, c) == HydroGenerationRow(y, key, c[1], c[2])
    IN  { RowsOfKeys(HydroKeys, f, Row) :
            f \in { g \in [1..Len(HydroKeys) -> choices \cup {<<>>}] :
                      Cardinality({k \in 1..Len(HydroKeys) : g[k] # <<>>}) = n } }

HydroProjectTables ==
    LET Row(key, mw) == HydroProject(key, mw[1])
    IN  { RowsOfKeys(HydroKeys, f, Row) : f \in [1..Len(HydroKeys) -> {<<>>, <<0>>, <<10>>}] }

\* Lines 849-856: the columns of hydro_generation merged with the capacity,
\* county and state of the project of the same plant and prime mover.
RECURSIVE MergeHydro(_, _)
MergeHydro(gen, projects) ==
    IF gen = <<>> THEN <<>>
    ELSE LET g == Head(gen)
             hits == SelectSeq(projects,
                               LAMBDA p : p.PlantCode = g.PlantCode
                                          /\ p.PrimeMover = g.PrimeMover)
         IN  [k \in 1..Len(hits) |->
                 [Year |-> g.Year, PlantCode |-> g.PlantCode, PlantName |-> g.PlantName,
                  PrimeMover |-> g.PrimeMover, netgen |-> g.netgen, elec |-> g.elec,
                  Nameplate |-> hits[k].Nameplate, County |-> hits[k].County,
                  State |-> hits[k].State, cf |-> [m \in Months |-> nan]]]
             \o MergeHydro(Tail(gen), projects)

\* Lines 857-870: the electricity consumed is added to the net generation
\* and the capacity factor is the result over the hours of the month times
\* the capacity.
HydroMonths(r) ==
    LET net == [m \in Months |-> AddNumber(r.netgen[m], ReplaceDot(r.elec[m]).n)]
    IN  [r EXCEPT !.netgen = net,
                  !.cf = [m \in Months |->
                            div(net[m], DaysInMonth(r.Year, m) * 24 * r.Nameplate)]]

\* Mutant: the narrow tables are merged on the plant only.
hydro_index_columns_plant(r) == <<r.PlantCode>>

\* Lines 879-886: index_columns
hydro_index_columns(r) ==
    <<r.Year, r.PlantCode, r.PlantName, r.PrimeMover, r.Nameplate, r.State, r.County>>

\* Lines 838-843: df_to_long_format for the column col_name of a month: the
\* index columns and the value of every row.
df_to_long_format(df, col_name, mth) ==
    [i \in 1..Len(df) |->
        [Year |-> df[i].Year, PlantCode |-> df[i].PlantCode,
         PlantName |-> df[i].PlantName, PrimeMover |-> df[i].PrimeMover,
         Nameplate |-> df[i].Nameplate, State |-> df[i].State,
         County |-> df[i].County, value |-> df[i][col_name][mth]]]

\* Lines 890-896: pd.merge(..., on=index_columns) of the two long tables;
\* the column Month of the new rows is missing.
RECURSIVE MergeLong(_, _)
MergeLong(left, right) ==
    IF left = <<>> THEN <<>>
    ELSE LET l == Head(left)
             hits == SelectSeq(right,
                               LAMBDA r : hydro_index_columns(r) = hydro_index_columns(l))
         IN  [k \in 1..Len(hits) |->
                 [Month |-> NaN, Year |-> l.Year, PlantCode |-> l.PlantCode,
                  PlantName |-> l.PlantName, State |-> l.State, County |-> l.County,
                  PrimeMover |-> l.PrimeMover, Nameplate |-> l.Nameplate,
                  CapacityFactor |-> l.value, NetGeneration |-> hits[k].value]]
             \o MergeLong(Tail(left), right)

\* Line 897: hydro_outputs_narrow.loc[:,'Month'].fillna(month, inplace=True)
FillMonth(t, mth) ==
    [i \in 1..Len(t) |-> IF isnull(t[i].Month) THEN [t[i] EXCEPT !.Month = Num(mth)] ELSE t[i]]

InitHydro ==
    /\ pc = "h_wide"
    /\ \E y \in {2015, 2016} : \E n \in 0..MaxHydro :
         hydro_generation \in HydroGenerationTables(y, n)
    /\ hydro_gen_projects \in HydroProjectTables
    /\ hydro_outputs = <<>>
    /\ hydro_outputs_narrow = <<>>
    /\ month = 0
    /\ IdleOthersHydro

\* Lines 849-873: the wide table.
BuildHydroWide ==
    /\ pc = "h_wide"
    /\ hydro_outputs' =
         LET merged == MergeHydro(hydro_generation, hydro_gen_projects)
         IN  [i \in 1..Len(merged) |-> HydroMonths(merged[i])]
    /\ month' = 1
    /\ pc' = "h_narrow"
    /\ UNCHANGED <<hydro_generation, hydro_gen_projects, hydro_outputs_narrow, othersHydro>>

\* Lines 888-897: one pass of the loop over the months.
AppendHydroMonth ==
    /\ pc = "h_narrow"
    /\ month <= NumMonths
    /\ hydro_outputs_narrow' =
         FillMonth(hydro_outputs_narrow
                   \o MergeLong(df_to_long_format(hydro_outputs, "cf", month),
                                df_to_long_format(hydro_outputs, "netgen", month)),
                   month)
    /\ month' = month + 1
    /\ UNCHANGED <<pc, hydro_generation, hydro_gen_projects, hydro_outputs, othersHydro>>

\* Lines 899-909: the columns in their final order, Month, Year and Plant
\* Code as integers, and the file in narrow format.
SaveHydroNarrow ==
    /\ pc = "h_narrow"
    /\ month > NumMonths
    /\ hydro_outputs_narrow' =
         [i \in 1..Len(hydro_outputs_narrow) |->
            [hydro_outputs_narrow[i] EXCEPT !.Month = hydro_outputs_narrow[i].Month.n]]
    /\ pc' = "h_done"
    /\ UNCHANGED <<hydro_generation, hydro_gen_projects, hydro_outputs, month, othersHydro>>

NextHydro ==
    \/ BuildHydroWide
    \/ AppendHydroMonth
    \/ SaveHydroNarrow

SpecHydro == InitHydro /\ [][NextHydro]_vars

\* The rows of the narrow table for the wide row w and the month m.
NarrowRowsOf(w, m) ==
    { k \in 1..Len(hydro_outputs_narrow) :
        LET r == hydro_outputs_narrow[k]
        IN  /\ r.Month = m
            /\ <<r.Year, r.PlantCode, r.PlantName, r.PrimeMover, r.Nameplate, r.State, r.County>>
                 = <<w.Year, w.PlantCode, w.PlantName, w.PrimeMover, w.Nameplate, w.State, w.County>> }

\* C21: the narrow hydro table holds, for every row of the wide table and
\* every month, exactly one row with the same identifying columns and that
\* month, whose capacity factor and net generation are those of the wide
\* row for the month; it holds no other row.
C21_NarrowAgreesWithWide ==
    pc = "h_done" =>
        /\ Len(hydro_outputs_narrow) = NumMonths * Len(hydro_outputs)
        /\ \A i \in 1..Len(hydro_outputs) : \A m \in Months :
             /\ Cardinality(NarrowRowsOf(hydro_outputs[i], m)) = 1
             /\ \A k \in NarrowRowsOf(hydro_outputs[i], m) :
                  /\ hydro_outputs_narrow[k].CapacityFactor = hydro_outputs[i].cf[m]
                  /\ hydro_outputs_narrow[k].NetGeneration = hydro_outputs[i].netgen[m]

\* C21 witness: two plants and prime movers in the wide table, one of them
\* without a plant name and county, and 24 rows in the narrow table.
C21_Witness ==
    /\ pc = "h_done"
    /\ Len(hydro_outputs) = 2
    /\ Len(hydro_outputs_narrow) = 24
    /\ hydro_outputs[1].PlantCode = hydro_outputs[2].PlantCode
    /\ \E k \in 1..24 : hydro_outputs_narrow[k].CapacityFactor.t = "fin"

(***************************************************************************)
(* parse_eia923_data: the heat-rate table and the multi-fuel extract       *)
(* (scrape.py, lines 916-965 and 1059-1072)                                *)
(*                                                                         *)
(* A record of heat_rate_outputs has here, besides the fields of the       *)
(* heat-rate profiles above, its plant, prime mover and energy source and  *)
(* its 'Fraction of Yearly Fuel Use'.                                      *)
(***************************************************************************)
\* The largest number of rows of fuel_based_generation.
MaxFuelRecords == 2

SUB == <<83, 85, 66>>

\* Plants, prime movers and energy sources, in the order of the groupby of
\* line 727.
FuelKeys == << <<1, ST, BIT>>, <<1, ST, NG>>, <<1, ST, SUB>>, <<2, ST, NG>> >>

\* The fuel consumed in a year (in the first month) and the net generation
\* of every month.
FuelKinds ==
    { <<3, 10>>, <<5, 10>>, <<8, 10>>, <<92, 10>>, <<95, 10>>, <<97, 10>>,
      <<5, -10>>, <<0, 10>> }

FuelGenerationRow(key, kind) ==
    [PlantCode |-> key[1], PrimeMover |-> key[2], EnergySource |-> key[3],
     mmbtu |-> [m \in Months |-> IF m = 1 THEN kind[1] ELSE 0],
     netgen |-> [m \in Months |-> kind[2]]]

FuelGenerationTables(n) ==
    { RowsOfKeys(FuelKeys, f, FuelGenerationRow) :
        f \in { g \in [1..Len(FuelKeys) -> FuelKinds \cup {<<>>}] :
                  Cardinality({k \in 1..Len(FuelKeys) : g[k] # <<>>}) = n } }

\* A row of fuel_based_gen_projects; the table is labelled 0..n-1 (line 757).
FuelProject(key, any) ==
    [PlantCode |-> key[1], PrimeMover |-> key[2], EnergySource |-> key[3]]

FuelProjectTables ==
    { RowsOfKeys(FuelKeys, f, FuelProject) : f \in [1..Len(FuelKeys) -> {<<>>, <<1>>}] }

\* The names of columns of fuel_based_gen_projects: those of the table that
\* parse_eia860_data saved, with 'EIA Plant Code' renamed.
FuelProjectColumns ==
    { "Plant Code", "Plant Name", "Prime Mover", "Energy Source", "Energy Source 2",
      "Energy Source 3", "Operational Status", "Operating Year", "State", "County",
      "Nameplate Capacity (MW)" }

\* Series.replace(to_replace=coal_codes, value='COAL') on 'Energy Source'.
ReplaceCoalCodes(t) ==
    [i \in 1..Len(t) |->
        IF t[i].EnergySource \in coal_codes THEN [t[i] EXCEPT !.EnergySource = COAL]
        ELSE t[i]]

FuelKey(r) == <<Num(r.PlantCode), Str(r.PrimeMover), Str(r.EnergySource)>>

RECURSIVE SumOfMonth(_, _, _)
SumOfMonth(rows, col, m) ==
    IF rows = <<>> THEN 0 ELSE Head(rows)[col][m] + SumOfMonth(Tail(rows), col, m)

RECURSIVE SumOfYear(_, _)
SumOfYear(row, m) == IF m > NumMonths THEN 0 ELSE row[m] + SumOfYear(row, m + 1)

\* Lines 924-937: the rows of a plant and prime mover that burn coal of any
\* kind become one row, their monthly columns summed.
AggregateCoal(t) ==
    LET replaced == ReplaceCoalCodes(t)
        keys == SortKeys({FuelKey(r) : r \in Range(replaced)})
    IN  [k \in 1..Len(keys) |->
           LET rows == SelectSeq(replaced, LAMBDA r : FuelKey(r) = keys[k])
           IN  [rows[1] EXCEPT
                  !.mmbtu = [m \in Months |-> SumOfMonth(rows, "mmbtu", m)],
                  !.netgen = [m \in Months |-> SumOfMonth(rows, "netgen", m)]]]

\* Lines 940-944: pd.merge on plant, prime mover and energy source.
RECURSIVE MergeFuelProjects(_, _)
MergeFuelProjects(t, projects) ==
    IF t = <<>> THEN <<>>
    ELSE LET hits == SelectSeq(projects,
                               LAMBDA p : /\ p.PlantCode = Head(t).PlantCode
                                          /\ p.PrimeMover = Head(t).PrimeMover
                                          /\ p.EnergySource = Head(t).EnergySource)
         IN  [k \in 1..Len(hits) |-> Head(t)] \o MergeFuelProjects(Tail(t), projects)

\* Lines 947-960: the fuel that the plant and prime mover of a record
\* consumed, month by month, all energy sources together.
total_fuel_consumption(gen, r) ==
    LET rows == SelectSeq(gen, LAMBDA g : /\ g.PlantCode = r.PlantCode
                                          /\ g.PrimeMover = r.PrimeMover)
    IN  [m \in Months |-> SumOfMonth(rows, "mmbtu", m)]

\* Lines 916-965: heat_rate_outputs before the loop over the months.
HeatRateOutputs(gen, projects) ==
    LET merged == MergeFuelProjects(AggregateCoal(gen), ReplaceCoalCodes(projects))
    IN  [i \in 1..Len(merged) |->
           [idx |-> i - 1,
            PlantCode |-> merged[i].PlantCode,
            PrimeMover |-> merged[i].PrimeMover,
            EnergySource |-> merged[i].EnergySource,
            hr |-> [m \in Months |-> Float(merged[i].mmbtu[m], 1)],
            netgen |-> merged[i].netgen,
            best |-> nan,
            Fraction |-> div(Float(SumOfYear(merged[i].mmbtu, 1), 1),
                             SumOfYear(total_fuel_consumption(gen, merged[i]), 1))]]

\* x >= 0.05 and x <= 0.95 on floats.
AtLeast5Percent(x) == (x.t = "fin" /\ 20 * x.p >= x.q) \/ (x.t = "inf" /\ x.p > 0)

AtMost95Percent(x) == (x.t = "fin" /\ 20 * x.p <= 19 * x.q) \/ (x.t = "inf" /\ x.p < 0)

\* The outcome of a lookup that raises KeyError.
KeyError == <<"KeyError">>

\* DataFrame.loc[row, col] on a table labelled 0..n-1: row is looked up
\* among the labels of the rows and col among the names of the columns.
loc(t, row, col) ==
    IF row \in 0..(Len(t) - 1) /\ col \in FuelProjectColumns
    THEN <<t[row + 1], col>>
    ELSE KeyError

\* Lines 1064-1071: the labels of the records that the loop collects.
indices_to_drop(t, projects) ==
    { r.idx : r \in { x \in Range(t) :
                        LET found == loc(projects, x.PlantCode, x.PrimeMover)
                        IN  found # KeyError /\ Len(found) > 1 } }

InitMulti ==
    /\ pc = "m_merge"
    /\ \E n \in 0..MaxFuelRecords : fuel_based_generation \in FuelGenerationTables(n)
    /\ fuel_based_gen_projects \in FuelProjectTables
    /\ multi_fuel_heat_rate_outputs = <<>>
    /\ IdleOthersMulti

\* Lines 916-965: the table of the fuel-based plants, with the share of each
\* energy source in the fuel of the year.
BuildHeatRateOutputs ==
    /\ pc = "m_merge"
    /\ heat_rate_outputs' = HeatRateOutputs(fuel_based_generation, fuel_based_gen_projects)
    /\ fuel_based_gen_projects' = ReplaceCoalCodes(fuel_based_gen_projects)
    /\ pc' = "w_rates"
    /\ UNCHANGED <<negative_heat_rate_outputs, fuel_based_generation,
                   multi_fuel_heat_rate_outputs, varsEarly, varsAssign, varsRegion,
                   varsUpload, varsHydro, varsCache, varsFinish, varsImpute,
                   varsGate>>

\* Lines 1059-1075: the records of the plants that burn several fuels.
ExtractMultiFuel ==
    /\ pc = "w_done"
    /\ multi_fuel_heat_rate_outputs' =
         LET flagged == SelectSeq(heat_rate_outputs,
                                  LAMBDA r : /\ AtLeast5Percent(r.Fraction)
                                             /\ AtMost95Percent(r.Fraction))
             dropped == indices_to_drop(flagged, fuel_based_gen_projects)
         IN  SelectSeq(flagged, LAMBDA r : r.idx \notin dropped)
    /\ pc' = "m_done"
    /\ UNCHANGED <<varsWide, fuel_based_generation, fuel_based_gen_projects,
                   varsEarly, varsAssign, varsRegion, varsUpload, varsHydro,
                   varsCache, varsFinish, varsImpute, varsGate>>

NextMulti ==
    \/ BuildHeatRateOutputs
    \/ ComputeMonthlyHeatRates
    \/ FilterNegative
    \/ AssignBestHeatRate
    \/ ExtractMultiFuel

SpecMulti == InitMulti /\ [][NextMulti]_vars

\* C22 (as claimed): a record is in the multi-fuel extract only if its share
\* of the fuel of the year lies strictly between 5% and 95%.
C22_StrictlyBetween ==
    pc = "m_done" =>
        \A i \in 1..Len(multi_fuel_heat_rate_outputs) :
            LET x == multi_fuel_heat_rate_outputs[i].Fraction
            IN  x.t = "fin" /\ 20 * x.p > x.q /\ 20 * x.p < 19 * x.q

\* The rows of fuel_based_gen_projects of the plant and prime mover of r.
ProjectsOf(r) ==
    { k \in 1..Len(fuel_based_gen_projects) :
        /\ fuel_based_gen_projects[k].PlantCode = r.PlantCode
        /\ fuel_based_gen_projects[k].PrimeMover = r.PrimeMover }

\* C23 (as claimed): no record of the multi-fuel extract has a plant and
\* prime mover with more than one row in fuel_based_gen_projects.
C23_DistinctUnitsAreExcluded ==
    pc = "m_done" =>
        \A i \in 1..Len(multi_fuel_heat_rate_outputs) :
            Cardinality(ProjectsOf(multi_fuel_heat_rate_outputs[i])) <= 1

(***************************************************************************)
(* The pickle cache of the parsed forms (scrape.py, lines 297-369 and      *)
(* 687-707)                                                                *)
(*                                                                         *)
(* A file is named by <<what it holds, year>>; a raw form is the number of *)
(* its download, and the table parsed from it is <<part, year, download>>.   *)
(***************************************************************************)
\* The largest number of calls, downloads and deletions of a behaviour.
MaxCacheSteps == 4

\* The largest number of downloads of a form of a year.
MaxDownloads == 2

CacheYears == {2015, 2016}

\* eia860_<year>_plants.pickle, eia860_<year>_existing.pickle and
\* eia860_<year>_proposed.pickle
Parts860 == {"plants", "existing", "proposed"}

\* eia923_<year>.pickle
Parts923 == {"eia923"}

PicklePaths == (Parts860 \cup Parts923) \X CacheYears

RawPaths == {"eia860", "eia923"} \X CacheYears

\* uniformize_names(pd.read_excel(...)) of a part of a raw form.
Parsed(part, year, download) == <<part, year, download>>

\* DataFrame.to_pickle and pd.read_pickle: the file holds the table.
to_pickle(table) == <<"pickle", table>>

read_pickle(file) == IF file = Absent THEN Absent ELSE file[2]

\* os.path.exists(pickle_path)
exists(path) == pickle_files[path] # Absent

\* Mutant: only the pickle of the plants is looked for.
NeedsParsing860_plantsOnly(year) ==
    ~exists(<<"plants", year>>) \/ REWRITE_PICKLES

\* Lines 308-311
NeedsParsing860(year) ==
    \/ ~exists(<<"plants", year>>)
    \/ ~exists(<<"existing", year>>)
    \/ ~exists(<<"proposed", year>>)
    \/ REWRITE_PICKLES

\* Line 691
NeedsParsing923(year) == ~exists(<<"eia923", year>>) \/ REWRITE_PICKLES

InitCache ==
    /\ pc = "c_idle"
    /\ pickle_files = [p \in PicklePaths |-> Absent]
    /\ raw_files = [p \in RawPaths |-> 1]
    /\ REWRITE_PICKLES \in BOOLEAN
    /\ loaded = <<>>
    /\ accessed = {}
    /\ written_by = [p \in PicklePaths |-> Absent]
    /\ cache_steps = 0
    /\ IdleOthersCache

\* The raw form of a year is downloaded again.
DownloadRaw(path) ==
    /\ pc = "c_idle"
    /\ cache_steps < MaxCacheSteps
    /\ raw_files[path] < MaxDownloads
    /\ raw_files' = [raw_files EXCEPT ![path] = @ + 1]
    /\ cache_steps' = cache_steps + 1
    /\ UNCHANGED <<pc, pickle_files, REWRITE_PICKLES, loaded, accessed, written_by,
                   othersCache>>

\* The user removes a file of pickle_data.
DeletePickle(path) ==
    /\ pc = "c_idle"
    /\ cache_steps < MaxCacheSteps
    /\ exists(path)
    /\ pickle_files' = [pickle_files EXCEPT ![path] = Absent]
    /\ cache_steps' = cache_steps + 1
    /\ UNCHANGED <<pc, raw_files, REWRITE_PICKLES, loaded, accessed, written_by,
                   othersCache>>

\* Lines 297-369: parse_eia860_data loads the three tables of a year.
LoadEIA860(year) ==
    /\ pc = "c_idle"
    /\ cache_steps < MaxCacheSteps
    /\ IF NeedsParsing860(year)
       THEN LET tables == [part \in Parts860 |->
                             Parsed(part, year, raw_files[<<"eia860", year>>])]
            IN  /\ pickle_files' =
                     [p \in PicklePaths |->
                         IF p[1] \in Parts860 /\ p[2] = year
                         THEN to_pickle(tables[p[1]]) ELSE pickle_files[p]]
                /\ written_by' =
                     [p \in PicklePaths |->
                         IF p[1] \in Parts860 /\ p[2] = year
                         THEN tables[p[1]] ELSE written_by[p]]
                /\ loaded' = tables
                /\ accessed' = {<<"read", "raw", <<"eia860", year>>>>}
                                 \cup {<<"write", "pickle", <<part, year>>>> : part \in Parts860}
       ELSE /\ loaded' = [part \in Parts860 |-> read_pickle(pickle_files[<<part, year>>])]
            /\ accessed' = {<<"read", "pickle", <<part, year>>>> : part \in Parts860}
            /\ UNCHANGED <<pickle_files, written_by>>
    /\ cache_steps' = cache_steps + 1
    /\ UNCHANGED <<pc, raw_files, REWRITE_PICKLES, othersCache>>

\* Lines 687-707: parse_eia923_data loads the table of a year.
LoadEIA923(year) ==
    /\ pc = "c_idle"
    /\ cache_steps < MaxCacheSteps
    /\ IF NeedsParsing923(year)
       THEN LET generation_table == Parsed("eia923", year, raw_files[<<"eia923", year>>])
            IN  /\ pickle_files' =
                     [pickle_files EXCEPT ![<<"eia923", year>>] = to_pickle(generation_table)]
                /\ written_by' = [written_by EXCEPT ![<<"eia923", year>>] = generation_table]
                /\ loaded' = [part \in Parts923 |-> generation_table]
                /\ accessed' = {<<"read", "raw", <<"eia923", year>>>>,
                                <<"write", "pickle", <<"eia923", year>>>>}
       ELSE /\ loaded' = [part \in Parts923 |-> read_pickle(pickle_files[<<part, year>>])]
            /\ accessed' = {<<"read", "pickle", <<"eia923", year>>>>}
            /\ UNCHANGED <<pickle_files, written_by>>
    /\ cache_steps' = cache_steps + 1
    /\ UNCHANGED <<pc, raw_files, REWRITE_PICKLES, othersCache>>

NextCache ==
    \/ \E path \in RawPaths : DownloadRaw(path)
    \/ \E path \in PicklePaths : DeletePickle(path)
    \/ \E year \in CacheYears : LoadEIA860(year)
    \/ \E year \in CacheYears : LoadEIA923(year)

SpecCache == InitCache /\ [][NextCache]_vars

\* A call for the parts of a form of a year: it parses the raw form exactly
\* when a pickle of the year is missing or rewriting is forced; otherwise it
\* reads the pickles only and loads the tables of the call that wrote them;
\* it reads and writes no file of another year and leaves them as they are.
CacheContract(parts, form, year) ==
    LET missing == \E part \in parts : pickle_files[<<part, year>>] = Absent
        parsed == <<"read", "raw", <<form, year>>>> \in accessed'
    IN  /\ parsed <=> (missing \/ REWRITE_PICKLES)
        /\ ~parsed =>
             /\ accessed' = {<<"read", "pickle", <<part, year>>>> : part \in parts}
             /\ \A part \in parts : loaded'[part] = written_by[<<part, year>>]
             /\ pickle_files' = pickle_files
        /\ parsed => \A part \in parts : loaded'[part] = Parsed(part, year, raw_files[<<form, year>>])
        /\ \A a \in accessed' : a[3][2] = year
        /\ \A p \in PicklePaths : p[2] # year => pickle_files'[p] = pickle_files[p]
        /\ \A part \in parts : read_pickle(pickle_files'[<<part, year>>]) = loaded'[part]

\* C24: the raw files of a form and year are parsed only when a pickle of
\* that year is missing (for EIA-860, any of the three) or REWRITE_PICKLES is
\* set; otherwise the pickles are read and the raw files are not; a call
\* that reads the pickles loads the tables of the call that wrote them, and a
\* call for one year reads and writes no pickle of another year.
C24_ParsedFormCache ==
    [][\A year \in CacheYears :
          /\ LoadEIA860(year) => CacheContract(Parts860, "eia860", year)
          /\ LoadEIA923(year) => CacheContract(Parts923, "eia923", year)]_vars

\* C24 witness: the form EIA-860 of 2015 was loaded from its pickles, written
\* by an earlier call, after the raw form had been downloaded again, while
\* no pickle of 2016 exists.
C24_Witness ==
    /\ accessed = {<<"read", "pickle", <<part, 2015>>>> : part \in Parts860}
    /\ raw_files[<<"eia860", 2015>>] = 2
    /\ loaded = [part \in Parts860 |-> Parsed(part, 2015, 1)]
    /\ \A p \in PicklePaths : p[2] = 2016 => pickle_files[p] = Absent

(***************************************************************************)
(* The records of consistently negative heat rates and the best heat rate  *)
(* of the others (scrape.py, lines 989-1002)                               *)
(***************************************************************************)
\* The heat rate of record r is zero or negative in every month.
NeverPositive(r) ==
    \A m \in Months :
        \/ r.hr[m].t = "fin" /\ r.hr[m].p <= 0
        \/ r.hr[m].t = "inf" /\ r.hr[m].p < 0

\* The number of rows of the table t that equal r.
Copies(t, r) == Cardinality({k \in 1..Len(t) : t[k] = r})

\* C25: every record of the heat-rate table goes to exactly one of the two
\* outputs: to the negative-heat-rate extract if and only if its heat rate
\* is <= 0 in all twelve months, and it stays in the heat-rate table when a
\* monthly heat rate is positive or missing; the filter runs whatever the
\* records are.
C25_ExactlyOneOutput ==
    /\ [][FilterNegative =>
            /\ Len(heat_rate_outputs') + Len(negative_heat_rate_outputs')
                 = Len(heat_rate_outputs)
            /\ \A i \in 1..Len(heat_rate_outputs) :
                 LET r == heat_rate_outputs[i]
                 IN  IF NeverPositive(r)
                     THEN /\ Copies(negative_heat_rate_outputs', r) = 1
                          /\ Copies(heat_rate_outputs', r) = 0
                     ELSE /\ Copies(negative_heat_rate_outputs', r) = 0
                          /\ Copies(heat_rate_outputs', r) = 1]_vars
    /\ [](pc = "w_filter" => ENABLED FilterNegative)

\* C25 witness: a record went to the negative extract, and a record with a
\* missing monthly heat rate and all other months <= 0 stayed.
C25_Witness ==
    /\ pc = "w_best"
    /\ Len(negative_heat_rate_outputs) >= 1
    /\ \E i \in 1..Len(heat_rate_outputs) :
         /\ \E m \in Months : heat_rate_outputs[i].hr[m].t = "nan"
         /\ \A m \in Months : ~GreaterThanZero(heat_rate_outputs[i].hr[m])

\* The months of record r with a positive finite heat rate.
PositiveMonths(r) == {m \in Months : r.hr[m].t = "fin" /\ r.hr[m].p > 0}

\* C26 (as claimed): the 'Best Heat Rate' of every record that remains in
\* the heat-rate table is one of the positive monthly heat rates of that
\* record, and a record with at least two positive monthly heat rates has
\* one.
C26_BestOfOwnRecord ==
    pc = "w_done" =>
        \A i \in 1..Len(heat_rate_outputs) :
            LET r == heat_rate_outputs[i]
            IN  /\ r.best # nan => \E m \in PositiveMonths(r) : r.best = r.hr[m]
                /\ Cardinality(PositiveMonths(r)) >= 2 => r.best # nan

(***************************************************************************)
(* finish_project_processing: new projects and uprates                     *)
(* (database_interface.py, lines 555-579)                                  *)
(***************************************************************************)
\* The largest number of rows of existing_gens and of proposed_gens.
MaxFinishUnits == 2

\* Plant, prime mover, energy source and operating year of the units of the
\* region: parse_eia860_data keeps one row for each of them.
ExistingKinds ==
    { <<1, "CC", Str(NG), 2000>>, <<1, "CC", Str(NG), 2010>>, <<1, "GT", Str(NG), 2000>>,
      <<2, "CC", Str(NG), 2000>> }

ProposedKinds ==
    { <<1, "CC", Str(NG), 2022>>, <<1, "GT", Str(NG), 2022>>, <<2, "GT", Str(NG), 2022>>,
      <<2, "CC", NaN, 2022>> }

FinishUnit(i, kind, status) ==
    [idx |-> i, PlantCode |-> kind[1], PrimeMover |-> kind[2], EnergySource |-> kind[3],
     OperatingYear |-> kind[4], OperationalStatus |-> status]

\* The tables of n different units of the kinds kinds, labelled from first on.
FinishTables(kinds, n, first, status) ==
    { [i \in 1..n |-> FinishUnit(first + i - 1, f[i], status)] :
        f \in { g \in [1..n -> kinds] : \A i, j \in 1..n : i # j => g[i] # g[j] } }

\* == on two cells of a column: a missing value equals nothing.
CellEq(a, b) == ~isnull(a) /\ ~isnull(b) /\ a = b

\* Lines 561-564: existing_units_for_proposed_gen
existing_units_for_proposed_gen(existing, p) ==
    SelectSeq(existing, LAMBDA e : /\ e.PlantCode = p.PlantCode
                                   /\ e.PrimeMover = p.PrimeMover
                                   /\ CellEq(e.EnergySource, p.EnergySource))

InitFinish ==
    /\ pc = "f_loop"
    /\ \E n \in 0..MaxFinishUnits :
         existing_gens \in FinishTables(ExistingKinds, n, 0, "Operable")
    /\ \E n \in 0..MaxFinishUnits :
         proposed_gens \in FinishTables(ProposedKinds, n, MaxFinishUnits, "Proposed")
    /\ uprates = <<>>
    /\ new_gens = <<>>
    /\ n_proposed_done = 0
    /\ IdleOthersFinish

\* Lines 557-570: one pass of the loop over proposed_gens.index.
ClassifyProposed ==
    /\ pc = "f_loop"
    /\ n_proposed_done < Len(proposed_gens)
    /\ LET p == proposed_gens[n_proposed_done + 1]
           n == Len(existing_units_for_proposed_gen(existing_gens, p))
       IN  /\ new_gens' = IF n = 0 THEN Append(new_gens, p) ELSE new_gens
           /\ uprates' = IF n = 1 THEN Append(uprates, p) ELSE uprates
    /\ n_proposed_done' = n_proposed_done + 1
    /\ UNCHANGED <<pc, existing_gens, proposed_gens, othersFinish>>

\* Lines 572-579: the two files are written.
SaveProposed ==
    /\ pc = "f_loop"
    /\ n_proposed_done = Len(proposed_gens)
    /\ pc' = "f_done"
    /\ UNCHANGED <<varsFinish, othersFinish>>

NextFinish ==
    \/ ClassifyProposed
    \/ SaveProposed

SpecFinish == InitFinish /\ [][NextFinish]_vars

\* The existing units with the plant, prime mover and energy source of p.
ExistingUnitsOf(p) ==
    { k \in 1..Len(existing_gens) :
        /\ existing_gens[k].PlantCode = p.PlantCode
        /\ existing_gens[k].PrimeMover = p.PrimeMover
        /\ existing_gens[k].EnergySource = p.EnergySource
        /\ ~isnull(p.EnergySource) }

\* C27 (as claimed): every proposed unit is in exactly one of the new
\* projects and the uprates: in the uprates when existing units with its
\* plant, prime mover and energy source are present, in the new projects
\* otherwise.
C27_NewProjectOrUprate ==
    pc = "f_done" =>
        \A i \in 1..Len(proposed_gens) :
            LET p == proposed_gens[i]
            IN  IF ExistingUnitsOf(p) # {}
                THEN p \in Range(uprates) /\ p \notin Range(new_gens)
                ELSE p \in Range(new_gens) /\ p \notin Range(uprates)

(***************************************************************************)
(* The operational status through the aggregation of parse_eia860_data     *)
(* (scrape.py, lines 397-415)                                              *)
(***************************************************************************)
\* The capacity of the rows of t whose 'Operational Status' is status.
CapacityWithStatus(t, status) ==
    SumOver(t, {p \in 1..Len(t) : t[p].v["Operational Status"] = Str(status)})

\* C28 (as claimed): an aggregation step never merges an operable unit with
\* a proposed one: every row of the result has the 'Operational Status' of
\* every row that was grouped into it, and the capacity that is operable
\* (and the capacity that is proposed) is the same before and after.
C28_StatusKeptApart ==
    AfterAggregation =>
        /\ \A i \in 1..Len(generators) : \A p \in 1..Len(gb.obj) :
             SameKey(gb.obj[p], generators[i], gb.keys) =>
                gb.obj[p].v["Operational Status"] = generators[i].v["Operational Status"]
        /\ \A status \in {Operable, Proposed} :
             CapacityWithStatus(generators, status) = CapacityWithStatus(gb.obj, status)

(***************************************************************************)
(* assign_heat_rates_to_projects: the loop over the units without a valid  *)
(* heat rate, one unit at a time and in any order                          *)
(* (database_interface.py, lines 473-479)                                  *)
(***************************************************************************)
\* The largest number of rows of thermal_gens in this part.
MaxImputeUnits == 3

\* The variables of the other parts, as seen from this loop.
othersLoop == <<varsEarly, varsWide, varsRegion, varsUpload, varsHydro, varsMulti,
                varsCache, varsFinish, varsGate>>

\* A substitute as a plain number.
Quotient(x) == x.sum \div x.n

\* Mutant: the units that already got a substitute serve as peers too.
thermal_gens_df_arg_withAssigned(w_hr, wo_hr, done) ==
    LET given == SelectSeq(wo_hr, LAMBDA r : r.idx \in done /\ r.BestHeatRate.n > 0)
    IN  w_hr \o [k \in 1..Len(given) |->
                   [given[k] EXCEPT !.BestHeatRate = Measured(Quotient(@))]]

\* Line 479: the table that the loop hands to calculate_avg_heat_rate.
thermal_gens_df_arg(w_hr, wo_hr, done) == w_hr

InitImpute ==
    /\ pc = "a_split"
    /\ \E k \in 0..MaxImputeUnits : thermal_gens \in ThermalGens(k, 0)
    /\ thermal_gens_w_hr = <<>>
    /\ thermal_gens_wo_hr = <<>>
    /\ n_outliers = 0
    /\ min_hr = 0
    /\ max_hr = 0
    /\ IdleEarly
    /\ IdleWide
    /\ IdleRest

\* Lines 473-479: one pass of the loop, for any label not yet gone through.
AssignAverage(k) ==
    /\ pc = "a_impute"
    /\ thermal_gens_wo_hr[k].idx \notin assigned
    /\ thermal_gens_wo_hr' =
         [thermal_gens_wo_hr EXCEPT ![k].BestHeatRate =
             calculate_avg_heat_rate(
                 AsNumbers(thermal_gens_df_arg(thermal_gens_w_hr, thermal_gens_wo_hr,
                                               assigned)),
                 thermal_gens_wo_hr[k].PrimeMover,
                 thermal_gens_wo_hr[k].EnergySource,
                 thermal_gens_wo_hr[k].OperatingYear)]
    /\ assigned' = assigned \cup {thermal_gens_wo_hr[k].idx}
    /\ UNCHANGED <<pc, thermal_gens, thermal_gens_w_hr, n_outliers, min_hr, max_hr,
                   othersLoop>>

\* The loop has gone through every label.
EndOfLoop ==
    /\ pc = "a_impute"
    /\ \A k \in 1..Len(thermal_gens_wo_hr) : thermal_gens_wo_hr[k].idx \in assigned
    /\ pc' = "a_concat"
    /\ UNCHANGED <<varsAssign, assigned, othersLoop>>

NextImpute ==
    \/ SplitHeatRates
    \/ ClampOutliers
    \/ \E k \in 1..Len(thermal_gens_wo_hr) : AssignAverage(k)
    \/ EndOfLoop
    \/ ConcatThermalGens

SpecImpute == InitImpute /\ [][NextImpute]_vars

\* C29: in whatever order the units without a valid heat rate are gone
\* through, the substitute of a unit is the average that the units with a
\* valid (clamped) heat rate give for its prime mover, energy source and
\* operating year, the substitutes of other units playing no part; the loop
\* leaves the heat rates of the measured units as they are.
C29_OrderIndependent ==
    /\ [](pc \in {"a_impute", "a_concat"} =>
            \A k \in 1..Len(thermal_gens_wo_hr) :
                LET r == thermal_gens_wo_hr[k]
                IN  IF r.idx \in assigned
                    THEN r.BestHeatRate =
                           calculate_avg_heat_rate(AsNumbers(thermal_gens_w_hr),
                                                   r.PrimeMover, r.EnergySource,
                                                   r.OperatingYear)
                    ELSE r = Original(r))
    /\ [][(pc = "a_impute") => thermal_gens_w_hr' = thermal_gens_w_hr]_vars

\* C29 witness: two units without a valid heat rate got the same substitute,
\* the measured heat rate of the third unit, one after the other.
C29_Witness ==
    /\ pc = "a_concat"
    /\ Cardinality(assigned) = 2
    /\ Len(thermal_gens_w_hr) = 1
    /\ \A k \in 1..Len(thermal_gens_wo_hr) :
         /\ thermal_gens_wo_hr[k].BestHeatRate.n = 1
         /\ thermal_gens_wo_hr[k].BestHeatRate.sum = thermal_gens_w_hr[1].BestHeatRate.sum

(***************************************************************************)
(* upload_generation_projects: the prompt before the database is changed   *)
(* (database_interface.py, lines 861-956)                                  *)
(***************************************************************************)
\* The largest number of answers of the user.
MaxAnswers == 3

\* What the user may type at the prompt.
Answers == {"y", "n", "Y", "N", "yes", ""}

\* Mutant: capital letters are taken too.
valid_answers_anyCase == {"y", "n", "Y", "N"}

\* Line 865: ['y','n']
valid_answers == {"y", "n"}

\* Lines 878-956: the first statements that change the database, in the
\* order of the program: two ALTER TABLE, eight DELETE and the push of the
\* table of the generators.
Statements ==
    << "ALTER", "ALTER", "DELETE", "DELETE", "DELETE", "DELETE", "DELETE", "DELETE",
       "DELETE", "DELETE", "push" >>

InitGate ==
    /\ pc = "g_prepare"
    /\ carry_on = ""
    /\ answers = <<>>
    /\ db_statements = <<>>
    /\ IdleOthersGate

\* Lines 686-859: the tables are read from the files and prepared; nothing
\* is sent to the database.
PrepareUpload ==
    /\ pc = "g_prepare"
    /\ pc' = "g_ask"
    /\ UNCHANGED <<varsGate, othersGate>>

\* Lines 861-869: getpass.getpass(...), asked again while the answer is
\* neither 'y' nor 'n'.
Ask(answer) ==
    /\ pc = "g_ask"
    /\ Len(answers) < MaxAnswers
    /\ carry_on' = answer
    /\ answers' = Append(answers, answer)
    /\ pc' = IF answer \notin valid_answers THEN "g_ask" ELSE "g_answered"
    /\ UNCHANGED <<db_statements, othersGate>>

\* Lines 870-871: sys.exit()
Exit ==
    /\ pc = "g_answered"
    /\ carry_on = "n"
    /\ pc' = "g_exit"
    /\ UNCHANGED <<varsGate, othersGate>>

\* Lines 873-956: the statements are sent one after the other.
RunStatement ==
    /\ pc \in {"g_answered", "g_push"}
    /\ carry_on # "n"
    /\ Len(db_statements) < Len(Statements)
    /\ db_statements' = Append(db_statements, Statements[Len(db_statements) + 1])
    /\ pc' = "g_push"
    /\ UNCHANGED <<carry_on, answers, othersGate>>

NextGate ==
    \/ PrepareUpload
    \/ \E answer \in Answers : Ask(answer)
    \/ Exit
    \/ RunStatement

SpecGate == InitGate /\ [][NextGate]_vars

\* C30: no statement changes the database before the user has answered 'y';
\* after the answer 'n' the run ends and the database is unchanged; after
\* any other answer the prompt is asked again and nothing else happens.
C30_ConfirmationGate ==
    /\ db_statements # <<>> => carry_on = "y"
    /\ pc = "g_exit" => carry_on = "n" /\ db_statements = <<>>
    /\ carry_on = "n" => pc \in {"g_answered", "g_exit"}
    /\ (answers # <<>> /\ carry_on \notin {"y", "n"}) => pc = "g_ask" /\ db_statements = <<>>
    /\ \A k \in 1..(Len(answers) - 1) : answers[k] \notin {"y", "n"}

\* C30 witness: the user answered 'Y', then 'yes', then 'y', and the tables
\* are being pushed.
C30_Witness ==
    /\ answers = <<"Y", "yes", "y">>
    /\ db_statements = Statements

====
